---- MODULE Spec2Model ----
(***************************************************************************)
(* A model of the LADAS task execution engine:                             *)
(*   - state/fsm_v2.py        LADASStateMachine (the `transitions` table)  *)
(*   - main.py                LADAS._execute_task, the orchestrator loop   *)
(*   - capture_manager.py     capture_screen / check_loop                  *)
(*   - failsafe_monitor.py    FailsafeMonitor, the process-wide abort flag *)
(*   - cleanup.py             CaptureCleanup, the retention of captures    *)
(*   - action_executor.py     ActionExecutor.execute, the safety gate      *)
(* Each component has its own specification over the shared variables.     *)
(***************************************************************************)
EXTENDS Integers, Sequences, FiniteSets, TLC

VARIABLES
    \* ---- LADASStateMachine (state/fsm_v2.py) ----
    state,        \* LADASStateMachine.state
    fsm_src,      \* the state the last trigger was fired from
    fsm_trigger,  \* the last trigger fired ("none" before the first)
    fsm_err,      \* TRUE when the last trigger raised MachineError
    \* ---- LADAS (main.py): objects shared by every _execute_task ----
    tracker,      \* self.state, the one StateTracker built in LADAS.__init__
    last_hash,    \* self.capture.last_hash (CaptureManager)
    triggered,    \* failsafe.triggered (FailsafeMonitor, module-level instance)
    now,          \* time.time(), in whole seconds
    task_status,  \* task_store: task id -> persisted status ("none": no record)
    step_status,  \* task_store: <<task id, step index>> -> persisted step status
    action_log,   \* action_log: task id -> action kind of the newest record
    cfg,          \* self.config: the options the loop reads
    \* ---- per running _execute_task coroutine ----
    loc,          \* its position and local variables
    obs,          \* what an observer of that run has seen so far
    \* ---- one call of ActionExecutor.execute (action_executor.py) ----
    exec_config,  \* self.exec_config, the "execution" section of the config
    exec_cmd,     \* action_cmd, the command passed to execute
    exec_raised,  \* "pending" before the call, then the exception or "none"
    exec_result,  \* the value execute returned
    actuated,     \* the actuator calls execute made, in order
    \* ---- CaptureManager and CaptureCleanup (capture/) ----
    files,        \* the artifacts in temp_dir: id, session tag, mtime
    created,      \* how many artifacts have been captured so far
    policy,       \* CaptureCleanup.max_count and max_age_seconds
    sweep,        \* per cleanup thread: its position and locals
    \* ---- FailsafeMonitor (execution/failsafe_monitor.py) ----
    listener,     \* self._listener: "none", "running" or "stopped"
    monitor_op,   \* the last call made on the monitor and how it ended
    \* ---- one call of MotionAnimator.move_mouse (execution/motion_animator.py) ----
    motion,       \* its position and locals
    pointer,      \* the values assigned to mouse_controller.position, in order
    \* ---- one call of StateBuilder.build_screen_state (perception/) ----
    perception,   \* its two lists and its position in them
    \* ---- one AsyncLADAS._execute_task (async_main.py) ----
    arun          \* its position, its clock and what an observer has seen

fsmVars == <<state, fsm_src, fsm_trigger, fsm_err>>

orchVars ==
    <<tracker, last_hash, triggered, now, task_status, step_status,
      action_log, cfg, loc, obs>>

gateVars == <<exec_config, exec_cmd, exec_raised, exec_result, actuated>>

\* What the machine and the orchestrator leave alone.
retentionVars == <<files, created, policy, sweep>>

monitorVars == <<listener, monitor_op>>

motionVars == <<motion, pointer>>

labelVars == <<perception>>

asyncVars == <<arun>>

moreVars == <<motionVars, labelVars, asyncVars>>

sideVars == <<gateVars, retentionVars, monitorVars, moreVars>>

vars ==
    <<state, fsm_src, fsm_trigger, fsm_err, tracker, last_hash, triggered, now,
      task_status, step_status, action_log, cfg, loc, obs,
      exec_config, exec_cmd, exec_raised, exec_result, actuated,
      files, created, policy, sweep, listener, monitor_op,
      motion, pointer, perception, arun>>

(***************************************************************************)
(* LADASStateMachine                                                       *)
(***************************************************************************)

\* fsm_v2.py: LADASStateMachine.states
States ==
    {"idle", "parsing", "planning", "executing", "validating", "retrying",
     "task_complete", "failed", "timeout", "aborted"}

\* The triggers registered by add_transition.
Triggers ==
    {"start_parsing", "to_planning", "start_executing", "start_validating",
     "failed_validation", "retry_to_executing", "finish_validating",
     "complete", "fail", "timeout", "trigger_failsafe"}

\* A plausible slip in the table: failed_validation wired to executing.
LifecycleTransitionsMiswired ==
    { <<"start_parsing",      "idle",       "parsing">>,
      <<"to_planning",        "parsing",    "planning">>,
      <<"start_executing",    "planning",   "executing">>,
      <<"start_validating",   "executing",  "validating">>,
      <<"failed_validation",  "validating", "executing">>,
      <<"retry_to_executing", "retrying",   "executing">>,
      <<"finish_validating",  "validating", "executing">> }

\* fsm_v2.py lines 36-46: <<trigger, source, dest>> with a single source.
LifecycleTransitions ==
    { <<"start_parsing",      "idle",       "parsing">>,
      <<"to_planning",        "parsing",    "planning">>,
      <<"start_executing",    "planning",   "executing">>,
      <<"start_validating",   "executing",  "validating">>,
      <<"failed_validation",  "validating", "retrying">>,
      <<"retry_to_executing", "retrying",   "executing">>,
      <<"finish_validating",  "validating", "executing">> }

\* A plausible slip: the failsafe trigger wired to failed.
WildcardTransitionsMiswired ==
    { <<"complete",         "task_complete">>,
      <<"fail",             "failed">>,
      <<"timeout",          "timeout">>,
      <<"trigger_failsafe", "failed">> }

\* fsm_v2.py lines 49-52: <<trigger, dest>> registered with source='*'.
WildcardTransitions ==
    { <<"complete",         "task_complete">>,
      <<"fail",             "failed">>,
      <<"timeout",          "timeout">>,
      <<"trigger_failsafe", "aborted">> }

\* source='*' is expanded by Machine.add_transition to every state of the
\* machine, the terminal ones included.
MachineTransitions ==
    LifecycleTransitions \cup
    { <<w[1], s, w[2]>> : w \in WildcardTransitions, s \in States }

\* The destinations the machine holds for a trigger fired from state s.
TriggerDests(trig, s) ==
    { tr[3] : tr \in { x \in MachineTransitions : x[1] = trig /\ x[2] = s } }

\* Calling a trigger method on the model: the transition registered for the
\* current state is taken; with none registered the library raises
\* MachineError (ignore_invalid_triggers is left at its default) and the
\* state is left as it was.
Fire(trig) ==
    /\ fsm_trigger' = trig
    /\ fsm_src' = state
    /\ IF TriggerDests(trig, state) = {}
       THEN /\ fsm_err' = TRUE
            /\ state' = state
       ELSE /\ fsm_err' = FALSE
            /\ state' \in TriggerDests(trig, state)

(***************************************************************************)
(* LADAS._execute_task (main.py): bounds, configuration and helpers        *)
(***************************************************************************)

\* Bounds of the model.
NTasks == 2          \* _execute_task coroutines run_terminal_loop has fired
MaxSteps == 2        \* steps in a generated plan
MaxTime == 2         \* the clock stops ticking here
MaxRetryLimit == 1   \* execution.step_retry_limit ranges over 0..MaxRetryLimit
MaxRepeatLimit == 3  \* state.repeated_state_limit ranges over 1..MaxRepeatLimit
MaxBudget == 3       \* reasoning.max_llm_calls_per_task ranges over 0..MaxBudget in the budget runs
MaxBase == 3         \* state.base_delay ranges over 0..MaxBase in the backoff runs
MaxCap == 5          \* state.max_delay ranges over 0..MaxCap in the backoff runs
MaxBackoffRetries == 4   \* stale retries in a row in the backoff runs

Tasks == 1..NTasks

\* Task ids are f"task_{int(time.time())}": one per clock second.
TaskIds == 0..MaxTime

\* One action kind for each way the two lists of main.py classify a kind:
\* click is in neither list, wait is in both, press_key only in the
\* validation list (line 379), run_command only in the loop list (line 292).
Kinds == {"click", "wait", "press_key", "run_command"}

\* main.py line 292: is_static_expected.
StaticExpected == {"wait", "run_command", "scroll", "search_web"}

\* main.py line 379: no_change_ok.
NoChangeOk == {"wait", "scroll", "hover", "move", "press_key", "search_web"}

\* Fingerprints a capture can produce; "none" is last_hash = None, which
\* capture_screen returns when imagehash.phash raises (lines 48-52).
Hashes == {"H1", "H2"}
NoHash == "none"

\* capture_manager.py lines 63-67: CaptureManager.check_loop, against the
\* manager's last_hash lh.
CheckLoop(new_hash, lh) ==
    IF new_hash = NoHash \/ lh = NoHash THEN FALSE ELSE new_hash = lh

RECURSIVE Pow2(_)
Pow2(n) == IF n <= 0 THEN 1 ELSE 2 * Pow2(n - 1)

Min(a, b) == IF a <= b THEN a ELSE b

\* A plausible slip: the cap on the delay left out.
BackoffDelayUncapped(base, max, n) == base * Pow2(n)

\* main.py line 389: min(base_delay * (2 ** step_retry_count), max_delay).
BackoffDelay(base, max, n) == Min(base * Pow2(n), max)

\* A plausible slip: the deadline compared one second late.
TimedOutLate(t_now, t_start, limit) == t_now - t_start > limit + 1

\* main.py line 255: time.time() - task_start_time > global_timeout.
TimedOut(t_now, t_start, limit) == t_now - t_start > limit

\* A plausible slip: > where >= is meant.
RepeatLimitReachedStrict(count, limit) == count > limit

\* main.py line 298: repeated_state_count >= repeated_state_limit.
RepeatLimitReached(count, limit) == count >= limit

\* A plausible slip: < where <= is meant.
MayRetryStrict(count, limit) == count < limit

\* main.py line 388: step_retry_count <= retry_limit.
MayRetry(count, limit) == count <= limit

(***************************************************************************)
(* StateTracker (state/fsm.py is not among the sources: its behaviour is   *)
(* taken from sections 3, 4.1 and 4.2 of the specification and from the    *)
(* way main.py and test_integration.py use it)                             *)
(***************************************************************************)

TrackerStates ==
    {"idle", "parsing", "planning", "executing", "validating", "retrying",
     "step_failed", "task_complete", "failed", "timeout", "aborted"}

TrackerTerminal == {"task_complete", "failed", "timeout", "aborted"}

\* Section 4.1: the lifecycle table and the emergency transitions; section
\* 4.2: task_complete when no steps remain or the screen is steady, and the
\* escalation of a step to step_failed.
Legal(from, to) ==
    \/ <<from, to>> \in
          { <<"idle", "parsing">>, <<"parsing", "planning">>,
            <<"planning", "executing">>, <<"executing", "validating">>,
            <<"validating", "executing">>, <<"validating", "retrying">>,
            <<"retrying", "executing">> }
    \/ from \notin TrackerTerminal /\ to \in {"failed", "timeout", "aborted"}
    \/ from \notin TrackerTerminal /\ to = "task_complete"
    \/ from = "executing" /\ to = "step_failed"

\* StateTracker.reset: a fresh ExecutionState.
FreshTracker ==
    [ fsm_state            |-> "idle",
      current_step_idx     |-> -1,
      step_retry_count     |-> 0,
      repeated_state_count |-> 0,
      llm_call_count       |-> 0,
      task_start_time      |-> 0,
      task_id              |-> -1,
      plan_len             |-> 0 ]

\* StateTracker.transition_to, for a legal transition.
TransitionTo(trk, to) == [trk EXCEPT !.fsm_state = to]

\* StateTracker.get_current_step is None.
NoCurrentStep(trk) ==
    trk.current_step_idx < 0 \/ trk.current_step_idx >= trk.plan_len

\* StateTracker.advance_step: the next step becomes current and the
\* per-step retry counter starts again; with a step left the tracker is
\* executing (True is returned), with none it is task_complete (False).
AdvanceTarget(trk) ==
    IF trk.current_step_idx + 1 >= trk.plan_len THEN "task_complete" ELSE "executing"

AdvanceLegal(trk) ==
    trk.fsm_state = AdvanceTarget(trk) \/ Legal(trk.fsm_state, AdvanceTarget(trk))

AdvanceStep(trk) ==
    [trk EXCEPT !.current_step_idx = @ + 1,
                !.step_retry_count = 0,
                !.fsm_state = IF AdvanceLegal(trk) THEN AdvanceTarget(trk) ELSE @]

AdvanceReturns(trk) == trk.current_step_idx + 1 < trk.plan_len

\* A plausible slip: the failure is logged and the tracker left as it is.
AfterErrorIgnored(trk) == trk

\* The handlers of main.py lines 413-415: an error raised inside the try
\* block ends in transition_to(FAILED); a tracker that is already terminal
\* rejects that too and is left as it is.
AfterError(trk) ==
    IF Legal(trk.fsm_state, "failed") THEN TransitionTo(trk, "failed") ELSE trk

\* The handler of main.py lines 410-412: FailsafeTriggered.
AfterFailsafe(trk) ==
    IF Legal(trk.fsm_state, "aborted") THEN TransitionTo(trk, "aborted") ELSE trk

(***************************************************************************)
(* The stores                                                              *)
(***************************************************************************)

\* task_store.py lines 10-25: create_task; task_id is unique, a second
\* record with the same id is rolled back.
CreateTask(ts, id) == IF ts[id] = "none" THEN [ts EXCEPT ![id] = "PENDING"] ELSE ts

\* task_store.py lines 27-49: update_task_plan, the task's part.
UpdateTaskPlan(ts, id) == IF ts[id] = "none" THEN ts ELSE [ts EXCEPT ![id] = "IN_PROGRESS"]

\* task_store.py lines 51-63: update_task_status; no record, no change.
UpdateTaskStatus(ts, id, status) ==
    IF ts[id] = "none" THEN ts ELSE [ts EXCEPT ![id] = status]

\* task_store.py lines 65-78: update_step_status; no record, no change.
UpdateStepStatus(ss, id, idx, status) ==
    IF <<id, idx>> \in DOMAIN ss /\ ss[<<id, idx>>] # "none"
    THEN [ss EXCEPT ![<<id, idx>>] = status]
    ELSE ss

\* task_store.py lines 37-45: the step records of a plan of n steps.
CreateSteps(ss, ts, id, n) ==
    IF ts[id] = "none" THEN ss
    ELSE [k \in DOMAIN ss |->
            IF k[1] = id /\ k[2] < n /\ ss[k] = "none" THEN "PENDING" ELSE ss[k]]

\* action_log.py lines 63-82: history[-1]["action_type"], or None.
LastAct(al, id) == al[id]

(***************************************************************************)
(* What an observer records of one run of _execute_task                    *)
(***************************************************************************)

\* Kinds that neither list of main.py, nor the list of section 4.2, expects
\* to leave the screen as it was.
EffectfulKinds == {"click"}

FreshObs ==
    [ abort_seen    |-> FALSE,  \* a failsafe check of this run raised
      timed_out     |-> FALSE,  \* a checkpoint saw the deadline exceeded
      ident_run     |-> 0,      \* identical captures in a row after an
                                \* effectful action
      prev_hash     |-> NoHash, \* the fingerprint that run is of
      stale_retries |-> 0,      \* stale verdicts of the current step answered
                                \* by a retry
      clean         |-> TRUE,   \* every attempt of the current step so far
                                \* was an effectful action that left the
                                \* fingerprint as it was before it
      requests      |-> 0,      \* requests issued to the LLM client for the run
      cleanups      |-> 0,      \* calls of capture.task_complete made by the run
      before_hash   |-> NoHash ]  \* the fingerprint of the capture before the
                                \* newest one (kept where the capture
                                \* attempts are followed one by one)

FreshLoc ==
    [ pc          |-> "new",
      action_cmd  |-> "none",
      screen_hash |-> NoHash,
      post_hash   |-> NoHash,
      delay       |-> 0,
      attempt     |-> 0,
      screen_path |-> 0 ]

\* The locals of an iteration are dead once it ends (each is assigned again
\* before it is read): the next iteration starts from these.
EndIteration(l, next) ==
    [l EXCEPT !.pc = next, !.action_cmd = "none", !.screen_hash = NoHash,
              !.post_hash = NoHash, !.attempt = 0]

\* The run observes the next step of the plan: the per-step records restart.
ObsNextStep(o) == [o EXCEPT !.stale_retries = 0, !.clean = TRUE]

envVars == <<now, triggered>>
storeVars == <<task_status, step_status, action_log>>

(***************************************************************************)
(* LADAS._execute_task, one action per stretch between its awaits          *)
(***************************************************************************)

\* main.py lines 196-200: reset the shared tracker, name the task, enter
\* parsing.
StartTask(t) ==
    /\ loc[t].pc = "new"
    /\ tracker' = TransitionTo([FreshTracker EXCEPT !.task_id = now], "parsing")
    /\ loc' = [loc EXCEPT ![t].pc = "parse"]
    /\ UNCHANGED <<fsmVars, sideVars, last_hash, envVars, storeVars, cfg, obs>>

\* A plausible slip: > where >= is meant, one request too many.
CountCallLate(trk) ==
    IF trk.llm_call_count > cfg.max_llm_calls THEN trk
    ELSE [trk EXCEPT !.llm_call_count = @ + 1]

\* A plausible slip: the counter moved on the fallback path as well.
CountCallAlways(trk) == [trk EXCEPT !.llm_call_count = @ + 1]

\* instruction_parser.py lines 18-36 and the other two clients: a request is
\* issued, and counted, only below the budget.
CountCall(trk) ==
    IF trk.llm_call_count >= cfg.max_llm_calls THEN trk
    ELSE [trk EXCEPT !.llm_call_count = @ + 1]

\* instruction_parser.py lines 22-31 and the other two clients: the requests
\* a call issues, one when the check of the budget lets it through to
\* generate_json and none when the fallback is returned.
Requested(trk) == IF trk.llm_call_count >= cfg.max_llm_calls THEN 0 ELSE 1

\* What the observer holds once the call made with tracker trk has returned.
ObsCalled(o, trk) == [o EXCEPT !.requests = @ + Requested(trk)]

\* instruction_parser.py lines 18-36: with the budget used up the fallback
\* intent is returned before anything can raise.
ParseOutcomes(trk) ==
    IF trk.llm_call_count >= cfg.max_llm_calls THEN {TRUE} ELSE BOOLEAN

\* main.py lines 203-214: parse; on an error failed is persisted and the
\* coroutine returns, otherwise the task record is created and planning
\* begins. A transition the tracker rejects is raised outside any try. What
\* generate_json raises is caught inside parse (lines 29-36), so parse raises
\* only ahead of the increment of line 27: no request, nothing counted.
Parse(t) ==
    /\ loc[t].pc = "parse"
    /\ \E ok \in ParseOutcomes(tracker) :
         LET trk == IF ok THEN CountCall(tracker) ELSE tracker
             to  == IF ok THEN "planning" ELSE "failed"
         IN  /\ obs' = [obs EXCEPT ![t] = IF ok THEN ObsCalled(@, tracker) ELSE @]
             /\ IF ~Legal(trk.fsm_state, to)
                THEN /\ tracker' = trk
                     /\ loc' = [loc EXCEPT ![t].pc = "crashed"]
                     /\ UNCHANGED task_status
                ELSE /\ tracker' = TransitionTo(trk, to)
                     /\ IF ok
                        THEN /\ task_status' = CreateTask(task_status, trk.task_id)
                             /\ loc' = [loc EXCEPT ![t].pc = "plan"]
                        ELSE /\ task_status' = UpdateTaskStatus(task_status, trk.task_id, "failed")
                             /\ loc' = [loc EXCEPT ![t].pc = "done"]
    /\ UNCHANGED <<fsmVars, sideVars, last_hash, envVars, step_status, action_log, cfg>>

\* task_planner.py lines 20-48: with the budget used up the fallback plan of
\* one step is returned.
PlanLengths(trk) ==
    IF trk.llm_call_count >= cfg.max_llm_calls THEN {1} ELSE 0..MaxSteps

\* task_planner.py lines 28-48: a plan, or -1 for generate_plan raising,
\* which the early return of line 30 rules out once the budget is used up.
PlanOutcomes(trk) ==
    PlanLengths(trk) \cup (IF trk.llm_call_count >= cfg.max_llm_calls THEN {} ELSE {-1})

\* main.py lines 217-247: plan; an error persists failed and returns; an
\* empty plan persists task_complete and returns; otherwise the first step
\* becomes current and the clock of the task starts. Like parse,
\* generate_plan raises only ahead of its increment (line 38).
Plan(t) ==
    /\ loc[t].pc = "plan"
    /\ \E n \in PlanOutcomes(tracker) :
         LET trk == [CountCall(tracker) EXCEPT !.plan_len = IF n < 0 THEN @ ELSE n]
             id  == trk.task_id
         IN  IF n < 0
             THEN \* generate_plan raised
                  /\ UNCHANGED obs
                  /\ IF ~Legal(trk.fsm_state, "failed")
                     THEN /\ UNCHANGED tracker
                          /\ loc' = [loc EXCEPT ![t].pc = "crashed"]
                          /\ UNCHANGED <<task_status, step_status>>
                     ELSE /\ tracker' = TransitionTo(tracker, "failed")
                          /\ task_status' = UpdateTaskStatus(task_status, id, "failed")
                          /\ loc' = [loc EXCEPT ![t].pc = "done"]
                          /\ UNCHANGED step_status
             ELSE /\ obs' = [obs EXCEPT ![t] = ObsCalled(@, tracker)]
                  /\ IF n = 0
                     THEN IF ~Legal(trk.fsm_state, "task_complete")
                          THEN /\ tracker' = trk
                               /\ task_status' = UpdateTaskPlan(task_status, id)
                               /\ loc' = [loc EXCEPT ![t].pc = "crashed"]
                               /\ UNCHANGED step_status
                          ELSE /\ tracker' = TransitionTo(trk, "task_complete")
                               /\ task_status' = UpdateTaskStatus(UpdateTaskPlan(task_status, id),
                                                                  id, "task_complete")
                               /\ loc' = [loc EXCEPT ![t].pc = "done"]
                               /\ UNCHANGED step_status
                     ELSE /\ task_status' = UpdateTaskPlan(task_status, id)
                          /\ step_status' = CreateSteps(step_status, task_status, id, n)
                          /\ IF ~AdvanceLegal(trk)
                             THEN /\ tracker' = AdvanceStep(trk)
                                  /\ loc' = [loc EXCEPT ![t].pc = "crashed"]
                             ELSE IF ~AdvanceReturns(trk)
                             THEN /\ tracker' = AdvanceStep(trk)
                                  /\ loc' = [loc EXCEPT ![t].pc = "done"]
                             ELSE /\ tracker' = [AdvanceStep(trk) EXCEPT !.task_start_time = now]
                                  /\ loc' = [loc EXCEPT ![t].pc = "loop"]
    /\ UNCHANGED <<fsmVars, sideVars, last_hash, envVars, action_log, cfg>>

\* The head of the loop with the failsafe check made before the deadline
\* check.
LoopCheckAbortFirst(t) ==
    /\ loc[t].pc = "loop"
    /\ IF tracker.fsm_state \notin {"executing", "validating", "retrying"}
       THEN /\ loc' = [loc EXCEPT ![t].pc = "finally"]
            /\ UNCHANGED <<tracker, obs>>
       ELSE LET trk == IF tracker.fsm_state = "retrying"
                       THEN TransitionTo(tracker, "executing") ELSE tracker
                late == now - trk.task_start_time > cfg.global_timeout
                o    == [obs[t] EXCEPT !.timed_out = late]
            IN  IF triggered
                THEN /\ tracker' = AfterFailsafe(trk)
                     /\ loc' = [loc EXCEPT ![t].pc = "finally"]
                     /\ obs' = [obs EXCEPT ![t] = [o EXCEPT !.abort_seen = TRUE]]
                ELSE IF TimedOut(now, trk.task_start_time, cfg.global_timeout)
                THEN /\ tracker' = TransitionTo(trk, "timeout")
                     /\ loc' = [loc EXCEPT ![t].pc = "finally"]
                     /\ obs' = [obs EXCEPT ![t] = o]
                ELSE IF NoCurrentStep(trk)
                THEN /\ tracker' = TransitionTo(trk, "task_complete")
                     /\ loc' = [loc EXCEPT ![t].pc = "finally"]
                     /\ obs' = [obs EXCEPT ![t] = o]
                ELSE /\ tracker' = trk
                     /\ loc' = [loc EXCEPT ![t].pc = "capture"]
                     /\ obs' = [obs EXCEPT ![t] = o]
    /\ UNCHANGED <<fsmVars, sideVars, last_hash, envVars, storeVars, cfg>>

\* main.py lines 250-265: the head of the loop. The while condition, the
\* resolution of retrying, the deadline, the failsafe check and the lookup
\* of the current step, in that order.
LoopCheck(t) ==
    /\ loc[t].pc = "loop"
    /\ IF tracker.fsm_state \notin {"executing", "validating", "retrying"}
       THEN /\ loc' = [loc EXCEPT ![t].pc = "finally"]
            /\ UNCHANGED <<tracker, obs>>
       ELSE LET trk == IF tracker.fsm_state = "retrying"
                       THEN TransitionTo(tracker, "executing") ELSE tracker
                late == now - trk.task_start_time > cfg.global_timeout
                o    == [obs[t] EXCEPT !.timed_out = late]
            IN  IF TimedOut(now, trk.task_start_time, cfg.global_timeout)
                THEN /\ tracker' = TransitionTo(trk, "timeout")
                     /\ loc' = [loc EXCEPT ![t].pc = "finally"]
                     /\ obs' = [obs EXCEPT ![t] = o]
                ELSE IF triggered
                THEN /\ tracker' = AfterFailsafe(trk)
                     /\ loc' = [loc EXCEPT ![t].pc = "finally"]
                     /\ obs' = [obs EXCEPT ![t] = [o EXCEPT !.abort_seen = TRUE]]
                ELSE IF NoCurrentStep(trk)
                THEN /\ tracker' = TransitionTo(trk, "task_complete")
                     /\ loc' = [loc EXCEPT ![t].pc = "finally"]
                     /\ obs' = [obs EXCEPT ![t] = o]
                ELSE /\ tracker' = trk
                     /\ loc' = [loc EXCEPT ![t].pc = "capture"]
                     /\ obs' = [obs EXCEPT ![t] = o]
    /\ UNCHANGED <<fsmVars, sideVars, last_hash, envVars, storeVars, cfg>>

\* main.py lines 418-420: persist the tracker's state as the task's status
\* and clean the session's captures, where nothing cancels the task.
Finally(t) ==
    /\ loc[t].pc = "finally"
    /\ task_status' = UpdateTaskStatus(task_status, tracker.task_id, tracker.fsm_state)
    /\ loc' = [loc EXCEPT ![t].pc = "done"]
    /\ obs' = [obs EXCEPT ![t].cleanups = @ + 1]
    /\ UNCHANGED <<fsmVars, sideVars, tracker, last_hash, envVars, step_status, action_log, cfg>>

\* The two awaits of the finally block taken one at a time. Line 419: the
\* tracker's state is persisted as the task's status.
FinallyPersist(t) ==
    /\ loc[t].pc = "finally"
    /\ task_status' = UpdateTaskStatus(task_status, tracker.task_id, tracker.fsm_state)
    /\ loc' = [loc EXCEPT ![t].pc = "cleanup"]
    /\ UNCHANGED <<fsmVars, sideVars, tracker, last_hash, envVars, step_status, action_log, cfg, obs>>

\* Line 420: capture.task_complete(session_id), then the coroutine returns.
FinallyClean(t) ==
    /\ loc[t].pc = "cleanup"
    /\ loc' = [loc EXCEPT ![t].pc = "done"]
    /\ obs' = [obs EXCEPT ![t].cleanups = @ + 1]
    /\ UNCHANGED <<fsmVars, sideVars, tracker, last_hash, envVars, storeVars, cfg>>

\* The awaits of _execute_task inside its try block (lines 249-405).
TryBody == {"loop", "capture", "detect", "decide", "execute", "inflight", "postcap", "judge"}

\* Task.cancel() (main.py lines 186-188, and asyncio.run for the tasks left
\* when run_terminal_loop has returned): CancelledError is raised at the
\* await the coroutine is suspended at. Ahead of the try block it leaves the
\* coroutine (the handlers of lines 205 and 218 catch Exception only);
\* inside the try block the handler of lines 407-409 transitions to aborted
\* and the finally block follows; at an await of the finally block it leaves
\* the coroutine, the call handed to the worker thread made or not.
Cancel(t) ==
    /\ loc[t].pc \in {"parse", "plan", "finally", "cleanup"} \cup TryBody
    /\ IF loc[t].pc \in TryBody
       THEN /\ tracker' = AfterFailsafe(tracker)
            /\ loc' = [loc EXCEPT ![t].pc = "finally"]
            /\ UNCHANGED <<task_status, obs>>
       ELSE /\ loc' = [loc EXCEPT ![t].pc = "crashed"]
            /\ UNCHANGED tracker
            /\ \E made \in BOOLEAN :
                 /\ task_status' = IF made /\ loc[t].pc = "finally"
                                   THEN UpdateTaskStatus(task_status, tracker.task_id,
                                                         tracker.fsm_state)
                                   ELSE task_status
                 /\ obs' = [obs EXCEPT ![t].cleanups =
                              IF made /\ loc[t].pc = "cleanup" THEN @ + 1 ELSE @]
    /\ UNCHANGED <<fsmVars, sideVars, last_hash, envVars, step_status, action_log, cfg>>

\* Some run has been fired and has not returned.
Busy == \E t \in DOMAIN loc : loc[t].pc \notin {"untyped", "new", "done", "crashed"}

\* Some run is about to read the clock where the reading matters: the
\* deadline check of main.py line 255, and the naming of a task at line 198
\* while another run is under way. (Line 247 only sets the origin the
\* deadline is counted from.)
ClockRead ==
    \/ \E t \in DOMAIN loc : loc[t].pc = "loop"
    \/ Busy /\ \E t \in DOMAIN loc : loc[t].pc = "new"

\* Some run is about to check the failsafe: main.py line 260,
\* action_executor.py line 27 and the actuators.
FailsafeRead == \E t \in DOMAIN loc : loc[t].pc \in {"loop", "execute", "inflight"}

\* The clock. A second that passes where no run reads the clock is the same
\* to every run as one that passes just before the next read.
Tick ==
    /\ ClockRead
    /\ now < MaxTime
    /\ now' = now + 1
    /\ UNCHANGED <<fsmVars, sideVars, tracker, last_hash, triggered, storeVars, cfg, loc, obs>>

\* failsafe_monitor.py lines 16-21: the key the monitor reacts to, and a key
\* it does not.
TargetKey == "F12"
PressedKeys == {"F12", "a"}

\* A key goes down. failsafe_monitor.py lines 26-30: a running listener
\* calls _on_press, which on the failsafe key sets triggered and returns
\* False, stopping the listener; without a running listener nothing hears
\* the key.
KeyDown(key) ==
    /\ IF listener = "running" /\ key = TargetKey
       THEN triggered' = TRUE /\ listener' = "stopped"
       ELSE UNCHANGED <<triggered, listener>>
    /\ monitor_op' = IF key = TargetKey THEN "failsafe_key" ELSE "other_key"
    /\ UNCHANGED <<fsmVars, gateVars, retentionVars, moreVars, tracker, last_hash, now,
                   storeVars, cfg, loc, obs>>

\* The failsafe key goes down while the monitor listens. A key pressed where
\* no run checks the flag is the same to every run as one pressed just
\* before the next check.
KeyPress ==
    /\ FailsafeRead
    /\ listener = "running"
    /\ KeyDown(TargetKey)
\* A transition requested inside the try block: a rejected one is an error,
\* handled at lines 413-415.
TryTransition(trk, to) ==
    IF Legal(trk.fsm_state, to) THEN TransitionTo(trk, to) ELSE AfterError(trk)

\* main.py lines 401-402 and 356-357: advance_step inside the try block, and
\* where the coroutine goes next (break on False, on to the loop head on True).
TryAdvance(trk) ==
    IF AdvanceLegal(trk) THEN AdvanceStep(trk) ELSE AfterError(AdvanceStep(trk))

AfterAdvance(trk) ==
    IF AdvanceLegal(trk) /\ AdvanceReturns(trk) THEN "loop" ELSE "finally"

\* main.py lines 269-287: up to three capture attempts; "fail" is all three
\* raising, which is fatal; otherwise capture_screen has stored the new
\* fingerprint in the manager's last_hash (capture_manager.py line 50) before
\* returning it.
Capture(t) ==
    /\ loc[t].pc = "capture"
    /\ \E h \in Hashes \cup {NoHash, "fail"} :
         IF h = "fail"
         THEN /\ tracker' = AfterError(tracker)
              /\ loc' = [loc EXCEPT ![t].pc = "finally"]
              /\ UNCHANGED last_hash
         ELSE /\ last_hash' = h
              /\ loc' = [loc EXCEPT ![t].pc = "detect", ![t].screen_hash = h]
              /\ UNCHANGED tracker
    /\ UNCHANGED <<fsmVars, sideVars, envVars, storeVars, cfg, obs>>

\* main.py lines 289-303: loop detection on the fingerprint just captured.
LoopDetect(t) ==
    /\ loc[t].pc = "detect"
    /\ LET h       == loc[t].screen_hash
           last    == LastAct(action_log, tracker.task_id)
           static  == last \in StaticExpected
           is_loop == CheckLoop(h, last_hash)
           count   == tracker.repeated_state_count + 1
           counted == [tracker EXCEPT !.repeated_state_count = count]
           run     == IF h = NoHash \/ last \notin EffectfulKinds THEN 0
                      ELSE IF h = obs[t].prev_hash THEN obs[t].ident_run + 1
                      ELSE 1
       IN  /\ obs' = [obs EXCEPT ![t].ident_run = run,
                                  ![t].prev_hash = IF run = 0 THEN NoHash ELSE h]
           /\ IF is_loop
              THEN IF ~static
                   THEN IF RepeatLimitReached(count, cfg.repeated_state_limit)
                        THEN /\ tracker' = TryTransition(counted, "task_complete")
                             /\ loc' = [loc EXCEPT ![t].pc = "finally"]
                        ELSE /\ tracker' = counted
                             /\ loc' = [loc EXCEPT ![t].pc = "decide"]
                   ELSE /\ UNCHANGED tracker
                        /\ loc' = [loc EXCEPT ![t].pc = "decide"]
              ELSE /\ tracker' = [tracker EXCEPT !.repeated_state_count = 0]
                   /\ loc' = [loc EXCEPT ![t].pc = "decide"]
    /\ UNCHANGED <<fsmVars, sideVars, last_hash, envVars, storeVars, cfg>>

\* decision_engine.py lines 27-59: with the budget used up the fallback wait
\* is returned before anything can raise; below it the engine returns an
\* action (the fallback wait when the client fails) or raises.
DecisionOutcomes(trk) ==
    IF trk.llm_call_count >= cfg.max_llm_calls THEN {"wait"} ELSE Kinds \cup {"raise"}

\* main.py lines 305-342: perception (no effect on the state modelled) and
\* the decision; a decision error counts against the step and, on its second
\* occurrence, moves the tracker to step_failed and continues.
Decide(t) ==
    /\ loc[t].pc = "decide"
    /\ \E out \in DecisionOutcomes(tracker) :
         IF out = "raise"
         THEN LET trk == [tracker EXCEPT !.step_retry_count = @ + 1]
              IN  /\ obs' = [obs EXCEPT ![t].clean = FALSE]
                  /\ IF trk.step_retry_count > 1
                     THEN /\ tracker' = TryTransition(trk, "step_failed")
                          /\ loc' = [loc EXCEPT ![t] =
                                        EndIteration(@, IF Legal(trk.fsm_state, "step_failed")
                                                        THEN "loop" ELSE "finally")]
                     ELSE /\ tracker' = trk
                          /\ loc' = [loc EXCEPT ![t].pc = "execute",
                                                ![t].action_cmd = "wait"]
         ELSE /\ tracker' = CountCall(tracker)
              /\ loc' = [loc EXCEPT ![t].pc = "execute", ![t].action_cmd = out]
              /\ obs' = [obs EXCEPT ![t] = ObsCalled(@, tracker)]
    /\ UNCHANGED <<fsmVars, sideVars, last_hash, envVars, storeVars, cfg>>

\* main.py lines 350-361: the handler of the inner try. Whatever
\* executor.execute raised, FailsafeTriggered included (it derives from
\* Exception), counts as a failed attempt of the step: past the retry limit
\* the step is persisted FAILED and the orchestrator advances, otherwise the
\* same step is tried again. o is what the observer holds for the run.
ExecFailed(t, o) ==
    LET trk == [tracker EXCEPT !.step_retry_count = @ + 1]
        o1  == [o EXCEPT !.clean = FALSE]
    IN  IF trk.step_retry_count > cfg.step_retry_limit
        THEN /\ step_status' = UpdateStepStatus(step_status, trk.task_id,
                                                trk.current_step_idx, "FAILED")
             /\ tracker' = TryAdvance(trk)
             /\ loc' = [loc EXCEPT ![t] = EndIteration(@, AfterAdvance(trk))]
             /\ obs' = [obs EXCEPT ![t] = ObsNextStep(o1)]
        ELSE /\ tracker' = trk
             /\ loc' = [loc EXCEPT ![t] = EndIteration(@, "loop")]
             /\ obs' = [obs EXCEPT ![t] = o1]
             /\ UNCHANGED step_status

\* action_executor.py lines 26-28: the failsafe check at the entry of
\* ActionExecutor.execute, called from main.py line 346.
Execute(t) ==
    /\ loc[t].pc = "execute"
    /\ IF triggered
       THEN ExecFailed(t, [obs[t] EXCEPT !.abort_seen = TRUE])
       ELSE /\ loc' = [loc EXCEPT ![t].pc = "inflight"]
            /\ UNCHANGED <<tracker, step_status, obs>>
    /\ UNCHANGED <<fsmVars, sideVars, last_hash, envVars, task_status, action_log, cfg>>

\* How a dispatched action can end. The actuators check the failsafe while
\* the action is in flight: mouse_controller.py lines 30 and 39 and
\* motion_animator.py line 105 for a click (a key pressed after the last of
\* them goes unseen), keyboard_controller.py lines 29-32 at the end of
\* press_key; wait and run_command make no check.
InflightOutcomes(kind, trig) ==
    IF trig /\ kind = "press_key" THEN {"abort", "error"}
    ELSE IF trig /\ kind = "click" THEN {"abort", "error", "ok"}
    ELSE {"ok", "error"}

\* action_executor.py lines 29-152 as called from main.py lines 345-361: the
\* action is dispatched and returns, or raises (a validation, authorization
\* or runtime failure, or FailsafeTriggered from an actuator).
Inflight(t) ==
    /\ loc[t].pc = "inflight"
    /\ \E out \in InflightOutcomes(loc[t].action_cmd, triggered) :
         IF out = "abort"
         THEN ExecFailed(t, [obs[t] EXCEPT !.abort_seen = TRUE])
         ELSE IF out = "error"
         THEN ExecFailed(t, obs[t])
         ELSE /\ loc' = [loc EXCEPT ![t].pc = "postcap"]
              /\ UNCHANGED <<tracker, step_status, obs>>
    /\ UNCHANGED <<fsmVars, sideVars, last_hash, envVars, task_status, action_log, cfg>>

\* main.py lines 363-377: the action is logged, the tracker enters
\* validating and the screen is captured again (two attempts; "fail" is both
\* raising, which leaves post_cap_data None).
PostCapture(t) ==
    /\ loc[t].pc = "postcap"
    /\ action_log' = [action_log EXCEPT ![tracker.task_id] = loc[t].action_cmd]
    /\ IF ~Legal(tracker.fsm_state, "validating")
       THEN /\ tracker' = AfterError(tracker)
            /\ loc' = [loc EXCEPT ![t] = EndIteration(@, "finally")]
            /\ UNCHANGED last_hash
       ELSE /\ tracker' = TransitionTo(tracker, "validating")
            /\ \E h \in Hashes \cup {NoHash, "fail"} :
                 /\ last_hash' = IF h = "fail" THEN last_hash ELSE h
                 /\ loc' = [loc EXCEPT ![t].pc = "judge", ![t].post_hash = h]
    /\ UNCHANGED <<fsmVars, sideVars, envVars, task_status, step_status, cfg, obs>>

\* main.py lines 379-405: the verdict on the step. check_loop compares the
\* post-action fingerprint with the manager's last_hash.
Judge(t) ==
    /\ loc[t].pc = "judge"
    /\ LET ph        == loc[t].post_hash
           ok        == loc[t].action_cmd \in NoChangeOk
           unchanged == ph # "fail" /\ CheckLoop(ph, last_hash)
           trk       == [tracker EXCEPT !.step_retry_count = @ + 1]
       IN  IF unchanged /\ ~ok
           THEN IF MayRetry(trk.step_retry_count, cfg.step_retry_limit)
                THEN /\ tracker' = TryTransition(trk, "retrying")
                     /\ loc' = [loc EXCEPT ![t] =
                                  [EndIteration(@, IF Legal(trk.fsm_state, "retrying")
                                                   THEN "loop" ELSE "finally")
                                   EXCEPT !.delay = BackoffDelay(cfg.base_delay, cfg.max_delay,
                                                                 trk.step_retry_count)]]
                     /\ obs' = [obs EXCEPT
                                  ![t].stale_retries = @ + 1,
                                  ![t].clean = @ /\ ph = loc[t].screen_hash
                                                 /\ loc[t].action_cmd \in EffectfulKinds]
                     /\ UNCHANGED step_status
                ELSE /\ step_status' = UpdateStepStatus(step_status, trk.task_id,
                                                        trk.current_step_idx, "FAILED")
                     /\ tracker' = TryAdvance(trk)
                     /\ loc' = [loc EXCEPT ![t] = EndIteration(@, AfterAdvance(trk))]
                     /\ obs' = [obs EXCEPT ![t] = ObsNextStep(@)]
           ELSE /\ step_status' =
                      IF ph = "fail" THEN step_status
                      ELSE UpdateStepStatus(step_status, tracker.task_id,
                                            tracker.current_step_idx, "COMPLETED")
                /\ tracker' = TryAdvance(tracker)
                /\ loc' = [loc EXCEPT ![t] = EndIteration(@, AfterAdvance(tracker))]
                /\ obs' = [obs EXCEPT ![t] = ObsNextStep(@)]
    /\ UNCHANGED <<fsmVars, sideVars, last_hash, envVars, task_status, action_log, cfg>>

\* Every step one run of _execute_task can take.
TaskStep(t) ==
    \/ StartTask(t)
    \/ Parse(t)
    \/ Plan(t)
    \/ LoopCheck(t)
    \/ Capture(t)
    \/ LoopDetect(t)
    \/ Decide(t)
    \/ Execute(t)
    \/ Inflight(t)
    \/ PostCapture(t)
    \/ Judge(t)
    \/ Finally(t)


(***************************************************************************)
(* ActionExecutor.execute (execution/action_executor.py)                   *)
(*                                                                         *)
(* The part of execute after the failsafe check at its entry (line 28,     *)
(* with Execute(t) above): lines 29-152. A Python value that may be None   *)
(* or absent is a sequence of length at most one, <<>> for None. A dict is *)
(* a function from the keys it holds. A position is kept in half pixels,   *)
(* so that the centre of a box of odd width is a whole number. The two     *)
(* sleeps (lines 51-55, 69-70, 149-150) change no state and are left out.  *)
(***************************************************************************)

MaxCoord == 1     \* coordinates and box corners range over 0..MaxCoord
MaxBoxLen == 4    \* a target bbox holds up to MaxBoxLen numbers
MaxKeys == 3      \* a hotkey names up to MaxKeys keys
MaxCmdLen == 2    \* a command string has up to MaxCmdLen characters

Range(s) == { s[i] : i \in DOMAIN s }

SeqsUpTo(S, n) == UNION { [1..k -> S] : k \in 0..n }

\* dict.get(key) with the default None.
Get(d, key) == IF d # <<>> /\ key \in DOMAIN d[1] THEN <<d[1][key]>> ELSE <<>>

\* Python truthiness of an optional dict: None and {} are falsy.
Truthy(d) == d # <<>> /\ DOMAIN d[1] # {}

\* action_executor.py line 60.
pointer_actions == {"click", "double_click", "right_click", "move", "scroll"}

\* One actuator call: the method, the position passed (<<>> when it takes
\* none) and the keys or command characters passed.
Call(fn, at, arg) == [fn |-> fn, at |-> at, arg |-> arg]

NoResult == "None"

\* A plausible slip: floor division, which loses the half pixel.
CentreFloor(lo, hi) == 2 * lo + 2 * ((hi - lo) \div 2)

\* Lines 47-48: lo + (hi - lo) / 2 in true division, in half pixels.
Centre(lo, hi) == 2 * lo + (hi - lo)

\* Lines 35-49: the coordinates dict execute works with, in half pixels.
\* Explicit coordinates win when the dict is non-empty; otherwise a bbox of
\* exactly four numbers gives its centre; otherwise what was given stays.
ResolveCoords(a) ==
    IF ~Truthy(a.coordinates) /\ a.bbox # <<>> /\ Len(a.bbox[1]) = 4
    THEN LET b == a.bbox[1]
         IN  << [k \in {"x", "y"} |->
                   IF k = "x" THEN Centre(b[1], b[3]) ELSE Centre(b[2], b[4])] >>
    ELSE IF a.coordinates = <<>> THEN <<>>
    ELSE << [k \in DOMAIN a.coordinates[1] |-> 2 * a.coordinates[1][k]] >>

\* A plausible slip: "and" where "or" is meant, so one coordinate is enough.
NeedsPositionBoth(kind, x, y) ==
    kind \in pointer_actions /\ (x = <<>> /\ y = <<>>)

\* Line 61: a pointer action without both x and y is rejected.
NeedsPosition(kind, x, y) ==
    kind \in pointer_actions /\ (x = <<>> \/ y = <<>>)

\* A plausible slip: the flag read under a misspelt key, always the default.
DryRunMisread(c) == FALSE

\* Line 67: exec_config.get("dry_run", False).
DryRun(c) == c.dry_run

\* str.lower on one key name.
Lower(k) == IF k = "Ctrl" THEN "ctrl" ELSE k

\* Line 111: "+".join(keys).lower().
RECURSIVE HotkeyStr(_)
HotkeyStr(keys) ==
    IF keys = <<>> THEN ""
    ELSE IF Len(keys) = 1 THEN Lower(keys[1])
    ELSE Lower(keys[1]) \o "+" \o HotkeyStr(Tail(keys))

\* dict.get(key, []) on an optional list.
OrEmpty(l) == IF l = <<>> THEN <<>> ELSE l[1]

\* Line 114: the hotkey is refused when unsafe_mode is off, the allow-list is
\* non-empty and the combination is not one of its entries.
HotkeyBlocked(c, keys) ==
    /\ ~c.unsafe_mode
    /\ OrEmpty(c.allowed_hotkeys) # <<>>
    /\ HotkeyStr(keys) \notin Range(OrEmpty(c.allowed_hotkeys))

\* str.startswith on strings held as sequences of characters.
StartsWith(s, p) == Len(p) <= Len(s) /\ SubSeq(s, 1, Len(p)) = p

\* Line 124: not command.strip().
Blank(s) == \A i \in DOMAIN s : s[i] = " "

\* A plausible slip: startswith the wrong way round.
IsAllowedReversed(c, command) ==
    \E p \in Range(OrEmpty(c.allowed_commands)) : StartsWith(p, command)

\* Line 126: any(command.startswith(cmd) for cmd in allowed_commands).
IsAllowed(c, command) ==
    \E p \in Range(OrEmpty(c.allowed_commands)) : StartsWith(command, p)

\* How execute ends: it raises, or returns a result after some calls.
Raise(e) == [raised |-> e, result |-> NoResult, calls |-> <<>>]
Return(r, calls) == [raised |-> "none", result |-> r, calls |-> calls]

\* Lines 73-143: the dispatch on action_type in live mode. x and y are the
\* optional coordinates of lines 57-58.
Dispatch(c, a, x, y) ==
    LET kind == a.action_type
        at   == IF x # <<>> /\ y # <<>> THEN <<x[1], y[1]>> ELSE <<>>
    IN  CASE kind = "click"        -> Return(NoResult, <<Call("mouse.click", at, <<>>)>>)
          [] kind = "double_click" -> Return(NoResult, <<Call("mouse.double_click", at, <<>>)>>)
          [] kind = "right_click"  -> Return(NoResult, <<Call("mouse.click", at, <<>>)>>)
          [] kind = "move"         ->
               Return(NoResult, IF at # <<>> THEN <<Call("mouse.move", at, <<>>)>> ELSE <<>>)
          [] kind = "drag"         ->
               Return(NoResult, IF a.ends THEN <<Call("mouse.drag", <<>>, <<>>)>> ELSE <<>>)
          [] kind = "scroll"       -> Return(NoResult, <<Call("mouse.scroll", at, <<>>)>>)
          [] kind = "type_text"    ->
               Return(NoResult,
                      (IF at # <<>> THEN <<Call("mouse.click", at, <<>>)>> ELSE <<>>)
                      \o (IF a.clear_first
                          THEN <<Call("keyboard.hotkey", <<>>, <<"ctrl", "a">>),
                                 Call("keyboard.press_key", <<>>, <<"backspace">>)>>
                          ELSE <<>>)
                      \o <<Call("keyboard.type_text", <<>>, <<>>)>>)
          [] kind = "press_key"    -> Return(NoResult, <<Call("keyboard.press_key", <<>>, <<"enter">>)>>)
          [] kind = "hotkey"       ->
               IF a.keys = <<>> THEN Return(NoResult, <<>>)
               ELSE IF HotkeyBlocked(c, a.keys) THEN Raise("PermissionError")
               ELSE Return(NoResult, <<Call("keyboard.hotkey", <<>>, a.keys)>>)
          [] kind = "run_command"  ->
               IF Blank(a.command) THEN Raise("ValueError")
               ELSE IF ~c.unsafe_mode /\ ~IsAllowed(c, a.command) THEN Raise("PermissionError")
               ELSE Return(NoResult, <<Call("subprocess.Popen", <<>>, a.command)>>)
          [] kind = "search_web"   ->
               Return("search_result", <<Call("perplexity.search", <<>>, <<>>)>>)
          [] OTHER                 -> Return(NoResult, <<>>)

\* Lines 29-152 in order: the action_type check, the coordinates, the
\* pointer check, the dry-run return, the dispatch.
ExecutorExecute(c, a) ==
    LET coords == ResolveCoords(a)
        x      == Get(coords, "x")
        y      == Get(coords, "y")
    IN  IF a.action_type = "" THEN Raise("ValueError")
        ELSE IF NeedsPosition(a.action_type, x, y) THEN Raise("ValueError")
        ELSE IF DryRun(c) THEN Return(NoResult, <<>>)
        ELSE Dispatch(c, a, x, y)

\* ---- the commands and configurations execute is checked on ----

\* The box of test_target_resolution (test_action_executor.py lines 37-46).
ExampleBox == <<100, 200, 300, 400>>

\* The coordinates field: absent, or a dict holding x, y, both or neither.
CoordinateDicts ==
    {<<>>} \cup { <<d>> : d \in UNION { [D -> 0..MaxCoord] : D \in SUBSET {"x", "y"} } }

\* parameters.target.bbox: absent, four numbers, or a list of another
\* length (filled with zeros).
TargetBoxes ==
    {<<>>, <<ExampleBox>>}
    \cup { <<b>> : b \in [1..4 -> 0..MaxCoord] }
    \cup { <<[i \in 1..n |-> 0]>> : n \in 0..MaxBoxLen }

\* The key names a hotkey is made of, one of them in upper case.
KeyNames == {"ctrl", "Ctrl", "alt", "c", "delete"}

\* The characters of a command string.
Chars == {"a", "b", " "}

Cmd(kind, co, bb, keys, command, ends, clear) ==
    [ action_type |-> kind, coordinates |-> co, bbox |-> bb, keys |-> keys,
      command |-> command, ends |-> ends, clear_first |-> clear ]

\* Every kind of the closed set, an unknown kind ("hover") and a command
\* without action_type (""), each with the fields its branch reads.
ActionCmds ==
    { Cmd(k, co, bb, <<>>, <<>>, FALSE, FALSE) :
        k \in pointer_actions, co \in CoordinateDicts, bb \in TargetBoxes }
    \cup { Cmd("type_text", co, bb, <<>>, <<>>, FALSE, cl) :
        co \in CoordinateDicts, bb \in TargetBoxes, cl \in BOOLEAN }
    \cup { Cmd("hotkey", <<>>, <<>>, ks, <<>>, FALSE, FALSE) : ks \in SeqsUpTo(KeyNames, MaxKeys) }
    \cup { Cmd("run_command", <<>>, <<>>, <<>>, s, FALSE, FALSE) : s \in SeqsUpTo(Chars, MaxCmdLen) }
    \cup { Cmd("drag", <<>>, <<>>, <<>>, <<>>, e, FALSE) : e \in BOOLEAN }
    \cup { Cmd(k, <<>>, <<>>, <<>>, <<>>, FALSE, FALSE) :
        k \in {"press_key", "wait", "search_web", "screenshot", "hover", ""} }

\* The allow-lists of one configuration: both keys missing, both lists
\* empty, the lists of the test's setUp (lines 16-23) scaled to the model,
\* and lists whose entries are not in normal form.
AllowLists ==
    { [hotkeys |-> <<>>,                           commands |-> <<>>],
      [hotkeys |-> << <<>> >>,                     commands |-> << <<>> >>],
      [hotkeys |-> << <<"ctrl+c", "alt+delete">> >>, commands |-> << << <<"a">> >> >>],
      [hotkeys |-> << <<"Ctrl+C">> >>,             commands |-> << << <<"a", "b">>, <<"b">> >> >>] }

ExecConfigs ==
    { [ dry_run |-> d, unsafe_mode |-> u,
        allowed_hotkeys |-> l.hotkeys, allowed_commands |-> l.commands ] :
      d \in BOOLEAN, u \in BOOLEAN, l \in AllowLists }

\* An executor built and not called.
GateStart(c, a) ==
    /\ exec_config = c
    /\ exec_cmd = a
    /\ exec_raised = "pending"
    /\ exec_result = NoResult
    /\ actuated = <<>>

\* The executor of the specifications that dispatch nothing through it.
GateIdle ==
    GateStart([dry_run |-> FALSE, unsafe_mode |-> FALSE,
               allowed_hotkeys |-> <<>>, allowed_commands |-> <<>>],
              Cmd("wait", <<>>, <<>>, <<>>, <<>>, FALSE, FALSE))

\* One call of execute on the command, past the failsafe check at its entry.
GateCall ==
    /\ exec_raised = "pending"
    /\ LET o == ExecutorExecute(exec_config, exec_cmd)
       IN  /\ exec_raised' = o.raised
           /\ exec_result' = o.result
           /\ actuated' = o.calls
    /\ UNCHANGED <<fsmVars, orchVars, retentionVars, monitorVars, moreVars, exec_config,
                   exec_cmd>>

(***************************************************************************)
(* CaptureCleanup and CaptureManager (capture/cleanup.py,                  *)
(* capture/capture_manager.py): the artifact directory, the sweeper thread *)
(* and the task_complete call of a finished task, one step per file        *)
(* operation so that the two and new captures interleave.                  *)
(***************************************************************************)

MaxFiles == 2     \* artifacts captured in one behaviour
MaxClock == 1     \* seconds that pass on the clock the mtimes are read from

\* The session of this process (main.py line 110) and the session of
\* another process whose artifacts lie in the same temp_screens directory.
OwnSession == "s1"
Sessions == {"s1", "s2"}

\* The threads that run cleanup code: the CaptureCleanupThread of
\* _cleanup_loop and the worker thread of task_complete (main.py line 420).
Sweepers == {"sweeper", "task"}

\* What the capture manager and its cleanup leave alone.
apartVars ==
    <<fsmVars, tracker, last_hash, triggered, storeVars, cfg, loc, obs, gateVars,
      monitorVars, moreVars>>

\* The locals of a thread that runs no cleanup code.
IdleThread ==
    [ pc |-> "idle", todo |-> {}, valid |-> {}, victims |-> {}, ref |-> 0,
      seen |-> 0, files_removed |-> 0 ]

\* capture_manager.py lines 34-43: a capture writes a new file under the
\* session's name, its mtime the time of the capture.
CaptureFile(s) ==
    /\ created < MaxFiles
    /\ created' = created + 1
    /\ files' = files \cup {[id |-> created + 1, session |-> s, mtime |-> now]}
    /\ UNCHANGED <<apartVars, policy, sweep, now>>

\* The clock is read by a capture (capture_manager.py line 34, the mtime)
\* and by enforce_policy when it starts (cleanup.py line 37).
MtimeRead ==
    \/ created < MaxFiles
    \/ sweep["sweeper"].pc = "idle"
    \/ sweep["task"].pc = "clean" /\ sweep["task"].todo = {}

\* A second passes on the clock time.time() and the mtimes are read from. A
\* second that passes where nothing reads the clock is the same to every
\* thread as one that passes just before the next read.
RetentionTick ==
    /\ MtimeRead
    /\ now < MaxClock
    /\ now' = now + 1
    /\ UNCHANGED <<apartVars, files, created, policy, sweep>>

\* os.remove(f): the file is unlinked, or FileNotFoundError is raised when
\* another activity has already removed it.
RemoveRaises(f) == IF f \in files THEN "none" ELSE "FileNotFoundError"

\* A plausible slip: the handler names one subclass of OSError only.
ToleratedNarrow(e) == e \in {"none", "PermissionError"}

\* cleanup.py lines 26, 50 and 62: except OSError, which FileNotFoundError
\* and PermissionError are subclasses of.
Tolerated(e) == e \in {"none", "FileNotFoundError", "PermissionError"}

\* The locals of a thread out of which an exception has propagated.
DeadThread == [IdleThread EXCEPT !.pc = "dead"]

\* A plausible slip: a pattern that matches no file of the directory.
GlobNothing(dir, s) == {}

\* cleanup.py lines 21-22: the files of the directory named <s>_*.png.
Glob(dir, s) == { f \in dir : f.session = s }

\* cleanup.py lines 21-22, called from capture_manager.py line 71: the glob
\* of the session's files.
CleanList ==
    /\ sweep["task"].pc = "idle"
    /\ sweep' = [sweep EXCEPT !["task"] =
                   [IdleThread EXCEPT !.pc = "clean",
                                      !.todo = Glob(files, OwnSession),
                                      !.seen = created]]
    /\ UNCHANGED <<apartVars, files, created, policy, now>>

\* cleanup.py lines 23-27: one turn of the loop over the globbed files.
CleanRemove ==
    /\ sweep["task"].pc = "clean"
    /\ \E f \in sweep["task"].todo :
         /\ files' = files \ {f}
         /\ sweep' = [sweep EXCEPT !["task"] =
                        IF Tolerated(RemoveRaises(f))
                        THEN [@ EXCEPT !.todo = @ \ {f}]
                        ELSE DeadThread]
    /\ UNCHANGED <<apartVars, created, policy, now>>

\* cleanup.py lines 32-37: enforce_policy lists the directory and reads the
\* clock; the sweeper thread does so when its wait ends (lines 70-73), the
\* task thread when clean_session has returned (capture_manager.py line 72).
SweepList(th) ==
    /\ \/ th = "sweeper" /\ sweep[th].pc = "idle"
       \/ th = "task" /\ sweep[th].pc = "clean" /\ sweep[th].todo = {}
    /\ sweep' = [sweep EXCEPT ![th] =
                   [IdleThread EXCEPT !.pc = "age", !.todo = files,
                                      !.ref = now, !.seen = created]]
    /\ UNCHANGED <<apartVars, files, created, policy, now>>

\* cleanup.py lines 42-51: one turn of the age loop. getmtime raises for a
\* file that is gone and the turn is skipped; a file older than max_age is
\* removed; any other is kept as valid.
SweepAge(th) ==
    /\ sweep[th].pc = "age"
    /\ \E f \in sweep[th].todo :
         IF f \notin files
         THEN /\ sweep' = [sweep EXCEPT ![th] =
                             IF Tolerated("FileNotFoundError")
                             THEN [@ EXCEPT !.todo = @ \ {f}]
                             ELSE DeadThread]
              /\ UNCHANGED files
         ELSE IF sweep[th].ref - f.mtime > policy.max_age
         THEN /\ files' = files \ {f}
              /\ sweep' = [sweep EXCEPT ![th].todo = @ \ {f},
                                        ![th].files_removed = @ + 1]
         ELSE /\ sweep' = [sweep EXCEPT ![th].todo = @ \ {f}, ![th].valid = @ \cup {f}]
              /\ UNCHANGED files
    /\ UNCHANGED <<apartVars, created, policy, now>>

\* A plausible slip: the list sorted by mtime descending.
NewestFirst(valid, k) ==
    { v \in SUBSET valid :
        /\ Cardinality(v) = k
        /\ \A f \in v, g \in valid \ v : f.mtime >= g.mtime }

\* The sets list.sort (line 56) can put in the first k places: k files of
\* valid none of which is newer than a file left out.
OldestFirst(valid, k) ==
    { v \in SUBSET valid :
        /\ Cardinality(v) = k
        /\ \A f \in v, g \in valid \ v : f.mtime <= g.mtime }

\* A plausible slip: the excess counted against one more than max_count.
ExcessLenient(valid, max_count) ==
    IF Cardinality(valid) > max_count + 1 THEN Cardinality(valid) - (max_count + 1) ELSE 0

\* cleanup.py lines 54 and 57: to_remove_count, none when within max_count.
Excess(valid, max_count) ==
    IF Cardinality(valid) > max_count THEN Cardinality(valid) - max_count ELSE 0

\* cleanup.py lines 54-58: the age loop is over; the oldest excess files are
\* chosen, and with none to remove the loops are over.
SweepTrim(th) ==
    /\ sweep[th].pc = "age"
    /\ sweep[th].todo = {}
    /\ \E v \in OldestFirst(sweep[th].valid, Excess(sweep[th].valid, policy.max_count)) :
         sweep' = [sweep EXCEPT ![th] =
                     [@ EXCEPT !.pc = IF v = {} THEN "log" ELSE "trim", !.victims = v]]
    /\ UNCHANGED <<apartVars, files, created, policy, now>>

\* cleanup.py lines 58-63: one turn of the count loop, oldest first.
SweepRemove(th) ==
    /\ sweep[th].pc = "trim"
    /\ \E f \in sweep[th].victims :
         /\ \A g \in sweep[th].victims : f.mtime <= g.mtime
         /\ files' = files \ {f}
         /\ sweep' = [sweep EXCEPT ![th] =
                        IF ~Tolerated(RemoveRaises(f)) THEN DeadThread
                        ELSE [@ EXCEPT !.victims = @ \ {f},
                                       !.files_removed = IF f \in files THEN @ + 1 ELSE @,
                                       !.pc = IF sweep[th].victims = {f} THEN "log"
                                              ELSE "trim"]]
    /\ UNCHANGED <<apartVars, created, policy, now>>

\* cleanup.py lines 65-66: the loops are over, the removals are logged and
\* enforce_policy returns: the sweeper thread to its wait (line 73), the
\* task thread out of task_complete.
SweepReturn(th) ==
    /\ sweep[th].pc = "log"
    /\ sweep' = [sweep EXCEPT ![th] = IdleThread]
    /\ UNCHANGED <<apartVars, files, created, policy, now>>

\* The retention policies the sweeps are checked under
\* (capture_manager.py lines 19-20): every count bound that MaxFiles
\* artifacts can exceed, every age bound up to the one nothing exceeds.
Policies == [max_count : 0..(MaxFiles - 1), max_age : 0..MaxClock]

\* CaptureManager.__init__: an empty directory, the sweeper started.
RetentionStart(p) ==
    /\ files = {}
    /\ created = 0
    /\ policy = p
    /\ sweep = [th \in Sweepers |-> IdleThread]

\* The capture manager of the specifications that capture no files.
RetentionIdle == RetentionStart([max_count |-> MaxFiles, max_age |-> MaxClock])


(***************************************************************************)
(* FailsafeMonitor (execution/failsafe_monitor.py): the calls made on the  *)
(* module-level instance from outside _execute_task.                       *)
(***************************************************************************)

\* What a call on the monitor leaves alone.
besideVars ==
    <<fsmVars, gateVars, retentionVars, moreVars, tracker, last_hash, now, storeVars, cfg,
      loc, obs>>

\* failsafe_monitor.py lines 32-37: start() begins a new listening session,
\* clearing triggered, unless a listener is running.
MonitorStart ==
    /\ IF listener # "running"
       THEN triggered' = FALSE /\ listener' = "running"
       ELSE UNCHANGED <<triggered, listener>>
    /\ monitor_op' = "start"
    /\ UNCHANGED besideVars

\* failsafe_monitor.py lines 39-43: stop() stops and drops the listener.
MonitorStop ==
    /\ listener' = "none"
    /\ monitor_op' = "stop"
    /\ UNCHANGED <<besideVars, triggered>>

\* A plausible slip: check() consumes the flag it reports.
MonitorCheckClears ==
    /\ monitor_op' = IF triggered THEN "check_raised" ELSE "check_passed"
    /\ triggered' = FALSE
    /\ UNCHANGED <<besideVars, listener>>

\* failsafe_monitor.py lines 45-48: check() raises FailsafeTriggered when
\* triggered is set and changes nothing.
MonitorCheck ==
    /\ monitor_op' = IF triggered THEN "check_raised" ELSE "check_passed"
    /\ UNCHANGED <<besideVars, triggered, listener>>

\* main.py line 85, after FailsafeMonitor.__init__ (lines 12-15): the
\* monitor listens, nothing called on it since.
MonitorStarted ==
    /\ listener = "running"
    /\ monitor_op = "start"

(***************************************************************************)
(* LADAS._execute_task with its capture attempts followed one by one and   *)
(* its dispatch passed through ActionExecutor.execute                      *)
(***************************************************************************)

\* main.py line 270: capture_retries = 3.
capture_retries == 3

\* main.py line 372: for attempt in range(1, 3), two attempts.
post_capture_tries == 2

\* How one attempt of main.py lines 273-279 can end: both calls return, or
\* capture_screen returns and get_monitor_dimensions raises, or
\* capture_screen raises before it has stored a fingerprint.
AttemptOutcomes == {"ok", "no_dims", "no_capture"}

\* The call frame of executor.execute in an iteration that has not reached
\* the dispatch: nothing called, nothing raised.
NotCalled == Raise("pending")

IdleCmd == Cmd("wait", <<>>, <<>>, <<>>, <<>>, FALSE, FALSE)

\* main.py lines 270-284, one attempt of the loop at a time. capture_screen
\* overwrites the manager's last_hash (capture_manager.py lines 48-52)
\* whenever it returns; after the third failed attempt the task is failed
\* and the loop is left. attempt holds the attempts that have failed; it is
\* dead once the for loop is over.
CaptureTry(t) ==
    /\ loc[t].pc = "capture"
    /\ \E out \in AttemptOutcomes, h \in Hashes \cup {NoHash} :
         LET n == loc[t].attempt + 1
         IN  /\ out = "no_capture" => h = NoHash
             /\ last_hash' = IF out = "no_capture" THEN last_hash ELSE h
             /\ obs' = [obs EXCEPT ![t].before_hash =
                                      IF out = "no_capture" THEN @ ELSE last_hash]
             /\ IF out = "ok"
                THEN /\ loc' = [loc EXCEPT ![t].pc = "detect", ![t].screen_hash = h,
                                           ![t].attempt = 0]
                     /\ UNCHANGED tracker
                ELSE IF n < capture_retries
                THEN /\ loc' = [loc EXCEPT ![t].attempt = n]
                     /\ UNCHANGED tracker
                ELSE /\ tracker' = AfterError(tracker)
                     /\ loc' = [loc EXCEPT ![t].pc = "finally", ![t].attempt = 0]
    /\ exec_cmd' = IdleCmd
    /\ exec_raised' = NotCalled.raised
    /\ exec_result' = NotCalled.result
    /\ actuated' = NotCalled.calls
    /\ UNCHANGED <<fsmVars, retentionVars, monitorVars, moreVars, exec_config, envVars,
                   storeVars, cfg>>

\* The commands the decision engine hands to the executor in these runs, at
\* least one of each kind of Kinds: a click with its position, and two
\* shell commands.
DecidedCmds ==
    { Cmd("click", << [x |-> 0, y |-> 0] >>, <<>>, <<>>, <<>>, FALSE, FALSE),
      Cmd("wait", <<>>, <<>>, <<>>, <<>>, FALSE, FALSE),
      Cmd("press_key", <<>>, <<>>, <<>>, <<>>, FALSE, FALSE),
      Cmd("run_command", <<>>, <<>>, <<>>, <<"a">>, FALSE, FALSE),
      Cmd("run_command", <<>>, <<>>, <<>>, <<"b">>, FALSE, FALSE) }

\* What executor.execute raised, seen from main.py line 350: the gate's own
\* exception, or the one an actuator raised under it.
RaisedBy(o, out) ==
    IF o.raised # "none" THEN o.raised
    ELSE IF out = "abort" THEN "FailsafeTriggered"
    ELSE IF out = "error" THEN "RuntimeError"
    ELSE "none"

\* main.py lines 345-361 with action_executor.py lines 29-152 under them:
\* the command goes through the gate; whatever is raised, by the gate or by
\* an actuator, lands in the one handler of line 350.
ExecuteGate(t) ==
    /\ loc[t].pc = "inflight"
    /\ \E a \in DecidedCmds :
         /\ a.action_type = loc[t].action_cmd
         /\ LET o == ExecutorExecute(exec_config, a)
            IN  \E out \in InflightOutcomes(loc[t].action_cmd, triggered) :
                  /\ o.raised # "none" => out = "error"
                  /\ exec_cmd' = a
                  /\ exec_raised' = RaisedBy(o, out)
                  /\ exec_result' = o.result
                  /\ actuated' = o.calls
                  /\ IF out = "abort"
                     THEN ExecFailed(t, [obs[t] EXCEPT !.abort_seen = TRUE])
                     ELSE IF out = "error"
                     THEN ExecFailed(t, obs[t])
                     ELSE /\ loc' = [loc EXCEPT ![t].pc = "postcap"]
                          /\ UNCHANGED <<tracker, step_status, obs>>
    /\ UNCHANGED <<fsmVars, retentionVars, monitorVars, moreVars, exec_config, last_hash,
                   envVars, task_status, action_log, cfg>>

\* main.py lines 363-371: the action is logged and the tracker enters
\* validating, before the first post-action capture attempt.
LogAction(t) ==
    /\ loc[t].pc = "postcap"
    /\ action_log' = [action_log EXCEPT ![tracker.task_id] = loc[t].action_cmd]
    /\ IF ~Legal(tracker.fsm_state, "validating")
       THEN /\ tracker' = AfterError(tracker)
            /\ loc' = [loc EXCEPT ![t] = EndIteration(@, "finally")]
       ELSE /\ tracker' = TransitionTo(tracker, "validating")
            /\ loc' = [loc EXCEPT ![t].pc = "postcap_try", ![t].attempt = 0]
    /\ UNCHANGED <<fsmVars, sideVars, last_hash, envVars, task_status, step_status,
                   cfg, obs>>

\* main.py lines 372-377, one attempt at a time: a capture that returns
\* ends the loop; after the second failure post_cap_data is still None.
PostCaptureTry(t) ==
    /\ loc[t].pc = "postcap_try"
    /\ \E h \in Hashes \cup {NoHash, "fail"} :
         LET n == loc[t].attempt + 1
         IN  IF h # "fail"
             THEN /\ last_hash' = h
                  /\ obs' = [obs EXCEPT ![t].before_hash = last_hash]
                  /\ loc' = [loc EXCEPT ![t].pc = "judge", ![t].post_hash = h,
                                        ![t].attempt = 0]
             ELSE /\ loc' = IF n < post_capture_tries
                            THEN [loc EXCEPT ![t].attempt = n]
                            ELSE [loc EXCEPT ![t].pc = "judge", ![t].post_hash = "fail",
                                             ![t].attempt = 0]
                  /\ UNCHANGED <<last_hash, obs>>
    /\ UNCHANGED <<fsmVars, sideVars, tracker, envVars, storeVars, cfg>>

\* Every step of one run, the captures and the dispatch in detail.
DetailStep(t) ==
    \/ StartTask(t)
    \/ Parse(t)
    \/ Plan(t)
    \/ LoopCheck(t)
    \/ CaptureTry(t)
    \/ LoopDetect(t)
    \/ Decide(t)
    \/ Execute(t)
    \/ ExecuteGate(t)
    \/ LogAction(t)
    \/ PostCaptureTry(t)
    \/ Judge(t)
    \/ Finally(t)

(***************************************************************************)
(* MotionAnimator.move_mouse (execution/motion_animator.py), one call,     *)
(* with the failsafe listener running beside it                            *)
(***************************************************************************)

\* Bounds of the model.
MaxEnd == 4      \* end_pos is (e, 0) with e in 0..MaxEnd; start_pos is (0, 0)
MaxPoints == 3   \* points on the curve, for the 12 to 72 of the code

\* motion_animator.py line 14: click_offset_px=3.
click_offset == 3

\* motion_animator.py line 89: distance < 5, on the squares.
snap_distance == 5

\* What a step of move_mouse leaves alone.
offMotion ==
    <<fsmVars, orchVars, gateVars, retentionVars, monitorVars, labelVars, asyncVars>>

\* The frame of a call: where it is, the target (the end position until the
\* offset is added), the length of the curve and the index of the point the
\* loop of line 104 is at.
MotionFrame(pc, target, n, next) ==
    [pc |-> pc, target |-> target, num_points |-> n, next |-> next]

\* The assignments to mouse_controller.position: point i of the curve, or
\* the target itself.
CurvePoint(i) == [to |-> "curve", i |-> i]
TargetPoint == [to |-> "target", i |-> 0]

\* Lines 21-22 and 89: math.hypot(dx, dy) < 5.
TooClose(from, to) ==
    (to[1] - from[1]) * (to[1] - from[1]) + (to[2] - from[2]) * (to[2] - from[2])
        < snap_distance * snap_distance

\* Lines 83-102: the target is the end position moved by a random offset; a
\* target closer than 5 pixels is snapped to (lines 89-93), otherwise the
\* curve is generated and the loop over its points begins.
MoveStart ==
    /\ motion.pc = "called"
    /\ \E dx \in (0 - click_offset)..click_offset, dy \in (0 - click_offset)..click_offset,
          n \in 1..MaxPoints :
         LET target == <<motion.target[1] + dx, motion.target[2] + dy>>
         IN  IF TooClose(<<0, 0>>, target)
             THEN /\ n = 1
                  /\ motion' = MotionFrame("returned", target, 0, 0)
                  /\ pointer' = Append(pointer, TargetPoint)
             ELSE /\ motion' = MotionFrame("check", target, n, 1)
                  /\ pointer' = pointer
    /\ UNCHANGED offMotion

\* A plausible slip: the flag is looked at before the first point only.
MotionCheckOnce ==
    /\ motion.pc = "check"
    /\ motion' = [motion EXCEPT !.pc = IF triggered /\ motion.next = 1
                                       THEN "raised" ELSE "write"]
    /\ UNCHANGED <<offMotion, pointer>>

\* Line 105 with failsafe_monitor.py lines 45-48: failsafe.check() at the
\* head of every iteration raises FailsafeTriggered when the flag is set.
MotionCheck ==
    /\ motion.pc = "check"
    /\ motion' = [motion EXCEPT !.pc = IF triggered THEN "raised" ELSE "write"]
    /\ UNCHANGED <<offMotion, pointer>>

\* Lines 106-107: the point is written and the loop sleeps; after the last
\* point the loop is over.
MotionWrite ==
    /\ motion.pc = "write"
    /\ pointer' = Append(pointer, CurvePoint(motion.next))
    /\ motion' = [motion EXCEPT !.next = @ + 1,
                                !.pc = IF motion.next < motion.num_points
                                       THEN "check" ELSE "snap"]
    /\ UNCHANGED offMotion

\* Lines 109-111: the final snap to the target.
MotionSnap ==
    /\ motion.pc = "snap"
    /\ pointer' = Append(pointer, TargetPoint)
    /\ motion' = [motion EXCEPT !.pc = "returned"]
    /\ UNCHANGED offMotion

\* move_mouse called with end position e, nothing written yet.
MotionStart(e) ==
    /\ motion = MotionFrame("called", e, 0, 0)
    /\ pointer = <<>>

\* The animator of the specifications that move nothing.
MotionIdle ==
    /\ motion = MotionFrame("returned", <<0, 0>>, 0, 0)
    /\ pointer = <<>>

(***************************************************************************)
(* MouseController.drag (execution/mouse_controller.py), one call from the *)
(* position the pointer is at, (0, 0), to an end position, with the        *)
(* failsafe listener running beside it. The two movements of the drag are  *)
(* calls of move_mouse, taken with the steps above.                        *)
(***************************************************************************)

\* The calls of self.mouse.press and self.mouse.release with Button.left.
ButtonPress == [to |-> "press", i |-> 0]
ButtonRelease == [to |-> "release", i |-> 0]

\* How often the call c has been made on the pynput controller.
CallsOf(c, calls) == Cardinality({ i \in 1..Len(calls) : calls[i] = c })

\* mouse_controller.py line 73: failsafe.check() at the head of drag.
DragCheck ==
    /\ motion.pc = "drag"
    /\ motion' = [motion EXCEPT !.pc = IF triggered THEN "raised" ELSE "move"]
    /\ UNCHANGED <<offMotion, pointer>>

\* Lines 76 and 28-32: self.move(start_x, start_y) checks the flag again
\* and calls move_mouse from the current position to the start, (0, 0).
DragMove ==
    /\ motion.pc = "move"
    /\ motion' = IF triggered THEN [motion EXCEPT !.pc = "raised"]
                 ELSE MotionFrame("called", <<0, 0>>, 0, 0)
    /\ UNCHANGED <<offMotion, pointer>>

\* Lines 79-83: the movement to the start has returned; the left button is
\* pressed and held, and move_mouse is called from the start to the end
\* position (e, 0) of the drag.
DragPress ==
    /\ motion.pc = "returned"
    /\ CallsOf(ButtonPress, pointer) = 0
    /\ pointer' = Append(pointer, ButtonPress)
    /\ \E e \in 0..MaxEnd : motion' = MotionFrame("called", <<e, 0>>, 0, 0)
    /\ UNCHANGED offMotion

\* Lines 85-90: the movement to the end has returned; the button is
\* released and drag returns.
DragRelease ==
    /\ motion.pc = "returned"
    /\ CallsOf(ButtonPress, pointer) = 1
    /\ CallsOf(ButtonRelease, pointer) = 0
    /\ pointer' = Append(pointer, ButtonRelease)
    /\ motion' = [motion EXCEPT !.pc = "done"]
    /\ UNCHANGED offMotion

\* drag called with the pointer at (0, 0), nothing done yet.
DragStart ==
    /\ motion = MotionFrame("drag", <<0, 0>>, 0, 0)
    /\ pointer = <<>>

(***************************************************************************)
(* StateBuilder.build_screen_state (perception/state_builder.py): the      *)
(* labelling of visual elements with nearby text, lines 24-41              *)
(***************************************************************************)

\* Bounds of the model.
MaxTexts == 2      \* entries in ocr_elements
MaxElements == 2   \* entries in vision_elements

\* state_builder.py line 38: dist < 50.
label_radius == 50

\* What build_screen_state leaves alone.
offLabels ==
    <<fsmVars, orchVars, gateVars, retentionVars, monitorVars, motionVars, asyncVars>>

\* Lines 27-28: v.get("center", {}) and the coordinates, 0 where absent.
ElementCentre(v) == IF v.center = <<>> THEN <<0, 0>> ELSE <<v.center[1].x, v.center[1].y>>

\* Lines 31-33: the centre of the text's box, by floor division.
TextCentre(o) ==
    <<o.bounding_box.x + (o.bounding_box.width \div 2),
      o.bounding_box.y + (o.bounding_box.height \div 2)>>

Square(n) == n * n

\* A plausible slip: <= where < is meant.
NearInclusive(v, o) ==
    Square(ElementCentre(v)[1] - TextCentre(o)[1])
      + Square(ElementCentre(v)[2] - TextCentre(o)[2]) <= Square(label_radius)

\* Lines 36-38: ((vx - ox) ** 2 + (vy - oy) ** 2) ** 0.5 < 50, on the
\* squares (the coordinates are integers, so nothing is lost).
Near(v, o) ==
    Square(ElementCentre(v)[1] - TextCentre(o)[1])
      + Square(ElementCentre(v)[2] - TextCentre(o)[2]) < Square(label_radius)

\* Lines 30-41: the inner loop from entry j on; the first near entry gives
\* the label and ends the loop, and without one the element is left as it
\* was (<<>>: no label key).
RECURSIVE LabelFrom(_, _, _)
LabelFrom(v, ocr, j) ==
    IF j > Len(ocr) THEN v.label
    ELSE IF Near(v, ocr[j]) THEN <<ocr[j].text>>
    ELSE LabelFrom(v, ocr, j + 1)

\* Lines 26-41: the outer loop, every element in turn.
LabelElements(ocr, vision) ==
    [i \in DOMAIN vision |-> [vision[i] EXCEPT !.label = LabelFrom(vision[i], ocr, 1)]]

\* The lists the two detectors return in the model: texts in boxes 41
\* pixels wide, whose centres are 20, 50 or 70 pixels right of the origin
\* and 0 or 40 pixels below it, and elements at the origin, 100 pixels right
\* of it, or without a centre. Some pairs are exactly 50 pixels apart:
\* (0, 0) and (50, 0), (100, 0) and (70, 40).
OcrEntries ==
    [ text : {"A", "B"},
      bounding_box : [x : {0, 30, 50}, y : {0, 40}, width : {41}, height : {0}] ]

VisionEntries ==
    [ center : {<<>>, << [x |-> 0, y |-> 0] >>, << [x |-> 100, y |-> 0] >>},
      label : {<<>>} ]

\* One call: its arguments, and the vision_elements of the state returned.
BuildScreenState ==
    /\ perception.pc = "called"
    /\ perception' = [perception EXCEPT
                        !.pc = "returned",
                        !.vision_elements = LabelElements(perception.ocr_elements, @)]
    /\ UNCHANGED offLabels

LabelStart(ocr, vision) ==
    perception = [pc |-> "called", ocr_elements |-> ocr, vision_elements |-> vision,
                  detected |-> vision]

\* The builder of the specifications that build nothing.
LabelIdle ==
    perception = [pc |-> "returned", ocr_elements |-> <<>>, vision_elements |-> <<>>,
                  detected |-> <<>>]

(***************************************************************************)
(* AsyncLADAS._execute_task (async_main.py), driving the machine of        *)
(* fsm_v2.py                                                               *)
(***************************************************************************)

\* What a step of AsyncLADAS leaves alone.
offAsync ==
    <<tracker, last_hash, triggered, task_status, step_status, action_log, cfg, loc, obs,
      gateVars, retentionVars, monitorVars, motionVars, labelVars>>

\* async_main.py line 115: global_timeout = 1800, scaled to the clock of the
\* model.
AsyncOptions == [global_timeout |-> 1]

\* The terminal states of spec 4.1, all of them states of the machine.
MachineTerminal == {"task_complete", "failed", "timeout", "aborted"}

\* Lines 92-99: the first command starts from idle; start_parsing from any
\* other state raises MachineError out of the coroutine.
AsyncStart ==
    /\ arun.pc = "new"
    /\ Fire("start_parsing")
    /\ arun' = [arun EXCEPT !.pc = IF state = "idle" THEN "parse" ELSE "crashed"]
    /\ UNCHANGED <<offAsync, now>>

\* Lines 102-107: to_planning.
AsyncPlan ==
    /\ arun.pc = "parse"
    /\ Fire("to_planning")
    /\ arun' = [arun EXCEPT !.pc = "plan"]
    /\ UNCHANGED <<offAsync, now>>

\* Lines 109-116: the mock plan of one step, start_executing and the start
\* of the task's clock.
AsyncExecute ==
    /\ arun.pc = "plan"
    /\ Fire("start_executing")
    /\ arun' = [arun EXCEPT !.pc = "loop", !.start_time = now]
    /\ UNCHANGED <<offAsync, now>>

\* Lines 119-134: the head of the while loop of the one step. Past the
\* deadline timeout() is fired and the loop is left; the for loop has no
\* step left, so the finally block is next.
AsyncLoop ==
    /\ arun.pc = "loop"
    /\ IF state \notin {"executing", "validating", "retrying"}
       THEN /\ arun' = [arun EXCEPT !.pc = "finally"]
            /\ UNCHANGED fsmVars
       ELSE IF TimedOut(now, arun.start_time, AsyncOptions.global_timeout)
       THEN /\ Fire("timeout")
            /\ arun' = [arun EXCEPT !.pc = "finally"]
       ELSE IF state = "retrying"
       THEN /\ Fire("retry_to_executing")
            /\ arun' = [arun EXCEPT !.pc = "act"]
       ELSE /\ arun' = [arun EXCEPT !.pc = "act"]
            /\ UNCHANGED fsmVars
    /\ UNCHANGED <<offAsync, now>>

\* Lines 134-153: the mock capture, perception, decision and dispatch, then
\* start_validating.
AsyncValidate ==
    /\ arun.pc = "act"
    /\ Fire("start_validating")
    /\ arun' = [arun EXCEPT !.pc = "validate"]
    /\ UNCHANGED <<offAsync, now>>

\* Lines 157-158: finish_validating and the break out of the while loop.
AsyncFinish ==
    /\ arun.pc = "validate"
    /\ Fire("finish_validating")
    /\ arun' = [arun EXCEPT !.pc = "finally"]
    /\ UNCHANGED <<offAsync, now>>

\* The coroutine is cancelled while it waits: at the awaits inside the try
\* block (lines 134-153) the handler of lines 162-164 fires
\* trigger_failsafe, at those before it (lines 99 and 107) the
\* CancelledError leaves _execute_task.
AsyncCancel ==
    /\ arun.pc \in {"parse", "plan", "act", "validate"}
    /\ IF arun.pc \in {"act", "validate"}
       THEN /\ Fire("trigger_failsafe")
            /\ arun' = [arun EXCEPT !.pc = "finally"]
       ELSE /\ arun' = [arun EXCEPT !.pc = "crashed"]
            /\ UNCHANGED fsmVars
    /\ UNCHANGED <<offAsync, now>>

\* Lines 169-172: the finally block fires complete() unless the machine is
\* in failed or aborted.
AsyncFinally ==
    /\ arun.pc = "finally"
    /\ IF state # "failed" /\ state # "aborted"
       THEN Fire("complete")
       ELSE UNCHANGED fsmVars
    /\ arun' = [arun EXCEPT !.pc = "done", !.tasks = @ + 1]
    /\ UNCHANGED <<offAsync, now>>

\* run_terminal_loop lines 57-70: the next command is read once the task
\* before it has returned, and run on the same machine.
AsyncNext ==
    /\ arun.pc = "done"
    /\ arun.tasks < NTasks
    /\ arun' = [arun EXCEPT !.pc = "new"]
    /\ UNCHANGED <<offAsync, fsmVars, now>>

\* A second passes.
AsyncTick ==
    /\ now < MaxTime
    /\ now' = now + 1
    /\ UNCHANGED <<offAsync, fsmVars, arun>>

\* AsyncLADAS.__init__ (lines 19-40): a fresh machine, no command read yet.
AsyncStartUp == arun = [pc |-> "new", start_time |-> 0, tasks |-> 0]

\* The async engine of the specifications that do not run it.
AsyncIdle == arun = [pc |-> "off", start_time |-> 0, tasks |-> 0]

(***************************************************************************)
(* The artifacts of concurrent runs (main.py, capture_manager.py,          *)
(* cleanup.py): every _execute_task of the process captures under the one  *)
(* session id of LADAS.__init__ (main.py line 110), reads the file it      *)
(* captured in the perception pipeline, and calls task_complete with that  *)
(* session id when it ends. Only the steps that touch the artifact         *)
(* directory are followed.                                                 *)
(***************************************************************************)

\* What a run leaves alone while it touches the artifact directory.
offShare ==
    <<fsmVars, tracker, last_hash, triggered, storeVars, cfg, obs, gateVars,
      monitorVars, moreVars, policy, sweep>>

\* main.py lines 193-250: the command is parsed and planned and the run
\* enters the loop; the first thing an iteration awaits is the capture.
RunStart(t) ==
    /\ loc[t].pc = "new"
    /\ loc' = [loc EXCEPT ![t].pc = "capture"]
    /\ UNCHANGED <<offShare, files, created, now>>

\* main.py lines 273, 286 and 374, capture_manager.py lines 34-43: the file
\* is written as <session_id>_<timestamp>_<step_id>.png with the session id
\* of the process, and screen_path names it.
RunCapture(t) ==
    /\ loc[t].pc = "capture"
    /\ created < MaxFiles
    /\ created' = created + 1
    /\ files' = files \cup {[id |-> created + 1, session |-> OwnSession, mtime |-> now]}
    /\ loc' = [loc EXCEPT ![t].pc = "perceive", ![t].screen_path = created + 1]
    /\ UNCHANGED <<offShare, now>>

\* main.py lines 277-284: every attempt of the capture raised, the run
\* fails and leaves the loop.
RunCaptureFails(t) ==
    /\ loc[t].pc = "capture"
    /\ loc' = [loc EXCEPT ![t].pc = "finally"]
    /\ UNCHANGED <<offShare, files, created, now>>

\* The file screen_path names is in the directory dir.
Held(t, dir) == \E f \in dir : f.id = loc[t].screen_path

\* main.py lines 306-314: process_image and detect_elements open
\* screen_path; when the file is gone they raise and the handlers leave
\* ocr_data and vis_data empty. The iteration goes on to the next capture
\* (line 374, or line 273 of the next iteration) or the run leaves the loop.
RunPerceive(t) ==
    /\ loc[t].pc = "perceive"
    /\ \E next \in {"capture", "finally"} :
         loc' = [loc EXCEPT ![t].pc = next]
    /\ UNCHANGED <<offShare, files, created, now>>

\* cleanup.py lines 42-51: the files enforce_policy keeps as valid.
WithinAge(dir) == { f \in dir : now - f.mtime <= policy.max_age }

\* main.py line 420, capture_manager.py lines 70-72: task_complete is
\* called with self.session_id, the session of the process; it runs
\* clean_session (cleanup.py lines 19-28), which removes every file of that
\* session, and enforce_policy (lines 30-66), in one worker thread, taken
\* here in one step.
RunComplete(t) ==
    /\ loc[t].pc = "finally"
    /\ LET kept == WithinAge(files \ Glob(files, OwnSession))
       IN  \E v \in OldestFirst(kept, Excess(kept, policy.max_count)) :
             files' = kept \ v
    /\ loc' = [loc EXCEPT ![t].pc = "done"]
    /\ UNCHANGED <<offShare, created, now>>
(***************************************************************************)
(* Specifications                                                          *)
(***************************************************************************)

\* The components a specification does not exercise, as built by
\* LADAS.__init__ (main.py lines 82-108).
MoreIdle == MotionIdle /\ LabelIdle /\ AsyncIdle

SideIdle == GateIdle /\ RetentionIdle /\ MonitorStarted /\ MoreIdle

\* LADAS.__init__ (main.py lines 70-112) with the options of one
\* configuration: a fresh tracker, no capture yet, the failsafe listening,
\* empty stores. typed is the set of commands that will be typed at the
\* prompt: each becomes one _execute_task.
OrchStart(c, typed) ==
    /\ tracker = FreshTracker
    /\ last_hash = NoHash
    /\ triggered = FALSE
    /\ now = 0
    /\ task_status = [id \in TaskIds |-> "none"]
    /\ step_status = [k \in TaskIds \X (0..MaxSteps) |-> "none"]
    /\ action_log = [id \in TaskIds |-> "none"]
    /\ cfg = c
    /\ loc = [t \in Tasks |-> IF t \in typed THEN FreshLoc
                                  ELSE [FreshLoc EXCEPT !.pc = "untyped"]]
    /\ obs = [t \in Tasks |-> FreshObs]

\* The options _execute_task reads (main.py lines 246, 298, 387 and 389,
\* decision_engine.py line 29 for the budget b), scaled to the model: a
\* deadline of one second, delays of 1 doubling up to 3.
Options(l, r, b) ==
    [ step_retry_limit       |-> l,
      repeated_state_limit   |-> r,
      global_timeout         |-> 1,
      max_llm_calls          |-> b,
      base_delay             |-> 1,
      max_delay              |-> 3 ]

\* The configurations one run is checked under: every pair of limits, and a
\* budget of four requests (parse, plan and two decisions).
OrchConfigs == { Options(l, r, 4) : l \in 0..MaxRetryLimit, r \in 1..MaxRepeatLimit }

\* One configuration, for the machine of fsm_v2.py, which reads none.
DefaultConfig == Options(1, 2, 4)

\* The configuration concurrent runs are checked under: a budget of one
\* request, so that planning and deciding fall back and the interleavings of
\* two runs stay within reach.
ConcConfig == Options(1, 2, 1)

\* The configurations the backoff delay is checked under.
BackoffConfigs ==
    { [Options(MaxBackoffRetries, 1, 0) EXCEPT !.base_delay = b, !.max_delay = m] :
      b \in 0..MaxBase, m \in 0..MaxCap }

\* fsm_v2.py line 29: initial='idle'.
FsmStart ==
    /\ state = "idle"
    /\ fsm_src = "idle"
    /\ fsm_trigger = "none"
    /\ fsm_err = FALSE

InitFSM == FsmStart /\ SideIdle /\ OrchStart(DefaultConfig, {})

NextFSM == (\E trig \in Triggers : Fire(trig)) /\ UNCHANGED <<orchVars, sideVars>>

SpecFSM == InitFSM /\ [][NextFSM]_vars

\* One task at a time: the first command typed at the prompt.
InitOrch == FsmStart /\ SideIdle /\ \E c \in OrchConfigs : OrchStart(c, {1})

NextOrch ==
    \/ TaskStep(1)
    \/ Tick
    \/ KeyPress

SpecOrch == InitOrch /\ [][NextOrch]_vars

\* run_terminal_loop (main.py lines 166-180): every command typed creates
\* another _execute_task on the same LADAS object, without waiting.
InitConc == FsmStart /\ SideIdle /\ OrchStart(ConcConfig, Tasks)

NextConc ==
    \/ \E t \in Tasks : TaskStep(t)
    \/ Tick
    \/ KeyPress

SpecConc == InitConc /\ [][NextConc]_vars


\* One run under every budget from none to MaxBudget requests, the limits
\* fixed.
InitBudget == FsmStart /\ SideIdle /\ \E b \in 0..MaxBudget : OrchStart(Options(0, 2, b), {1})

SpecBudget == InitBudget /\ [][NextOrch]_vars

\* main.py lines 385-392 on their own: a stale verdict increments the step's
\* retry counter and, within the limit, computes the delay slept before the
\* retry.
StaleRetry(t) ==
    LET n == tracker.step_retry_count + 1
    IN  /\ loc[t].pc # "untyped"
        /\ MayRetry(n, cfg.step_retry_limit)
        /\ tracker' = [tracker EXCEPT !.step_retry_count = n]
        /\ loc' = [loc EXCEPT ![t].delay = BackoffDelay(cfg.base_delay, cfg.max_delay, n)]
        /\ UNCHANGED <<fsmVars, sideVars, last_hash, envVars, storeVars, cfg, obs>>

InitBackoff == FsmStart /\ SideIdle /\ \E c \in BackoffConfigs : OrchStart(c, {1})

NextBackoff == \E t \in Tasks : StaleRetry(t)

SpecBackoff == InitBackoff /\ [][NextBackoff]_vars

\* ActionExecutor.execute on every command and configuration of the model.
InitExec ==
    /\ FsmStart
    /\ OrchStart(DefaultConfig, {})
    /\ RetentionIdle
    /\ MonitorStarted
    /\ MoreIdle
    /\ \E c \in ExecConfigs, a \in ActionCmds : GateStart(c, a)

NextExec == GateCall

SpecExec == InitExec /\ [][NextExec]_vars

\* The artifact directory under every policy of the model: captures, the
\* sweeper thread and task_complete, interleaved.
InitRetention ==
    /\ FsmStart
    /\ OrchStart(DefaultConfig, {})
    /\ GateIdle
    /\ MonitorStarted
    /\ MoreIdle
    /\ \E p \in Policies : RetentionStart(p)

NextRetention ==
    \/ \E s \in Sessions : CaptureFile(s)
    \/ RetentionTick
    \/ CleanList
    \/ CleanRemove
    \/ \E th \in Sweepers : SweepList(th)
    \/ \E th \in Sweepers : SweepAge(th)
    \/ \E th \in Sweepers : SweepTrim(th)
    \/ \E th \in Sweepers : SweepRemove(th)
    \/ \E th \in Sweepers : SweepReturn(th)

SpecRetention == InitRetention /\ [][NextRetention]_vars

\* One task run that can be cancelled at any of its awaits, the finally
\* block taken one await at a time.
NextCancel ==
    \/ StartTask(1)
    \/ Parse(1)
    \/ Plan(1)
    \/ LoopCheck(1)
    \/ Capture(1)
    \/ LoopDetect(1)
    \/ Decide(1)
    \/ Execute(1)
    \/ Inflight(1)
    \/ PostCapture(1)
    \/ Judge(1)
    \/ FinallyPersist(1)
    \/ FinallyClean(1)
    \/ Cancel(1)
    \/ Tick
    \/ KeyPress

SpecCancel == InitOrch /\ [][NextCancel]_vars

\* enforce_policy on its own: the sweeper thread is the only one that
\* removes files, while captures of both sessions go on and the clock runs.
NextSweep ==
    \/ \E s \in Sessions : CaptureFile(s)
    \/ RetentionTick
    \/ SweepList("sweeper")
    \/ SweepAge("sweeper")
    \/ SweepTrim("sweeper")
    \/ SweepRemove("sweeper")
    \/ SweepReturn("sweeper")

SpecSweep == InitRetention /\ [][NextSweep]_vars

\* One task run while keys go down and start(), stop() and check() are
\* called on the monitor in any order.
InitFailsafe == FsmStart /\ SideIdle /\ OrchStart(ConcConfig, {1})

NextFailsafe ==
    \/ TaskStep(1)
    \/ Tick
    \/ \E key \in PressedKeys : KeyDown(key)
    \/ MonitorStart
    \/ MonitorStop
    \/ MonitorCheck

SpecFailsafe == InitFailsafe /\ [][NextFailsafe]_vars

\* The configurations with dry_run off: the ones in which a dispatched
\* command reaches the allow-lists.
LiveConfigs == { c \in ExecConfigs : ~c.dry_run }

\* One run with the capture attempts and the gate in detail, under every
\* live configuration of the executor; the limits of the loop are fixed.
InitDetail ==
    /\ FsmStart
    /\ RetentionIdle
    /\ MonitorStarted
    /\ MoreIdle
    /\ OrchStart(DefaultConfig, {1})
    /\ \E c \in LiveConfigs : GateStart(c, IdleCmd)

NextDetail == DetailStep(1)

SpecDetail == InitDetail /\ [][NextDetail]_vars

\* One call of move_mouse from (0, 0) to every end position of the model,
\* while keys go down.
InitMotion ==
    /\ FsmStart
    /\ OrchStart(DefaultConfig, {})
    /\ GateIdle
    /\ RetentionIdle
    /\ MonitorStarted
    /\ LabelIdle
    /\ AsyncIdle
    /\ \E e \in 0..MaxEnd : MotionStart(<<e, 0>>)

NextMotion ==
    \/ MoveStart
    \/ MotionCheck
    \/ MotionWrite
    \/ MotionSnap
    \/ \E key \in PressedKeys : KeyDown(key)

SpecMotion == InitMotion /\ [][NextMotion]_vars

\* build_screen_state on every pair of lists of the model.
InitLabels ==
    /\ FsmStart
    /\ OrchStart(DefaultConfig, {})
    /\ GateIdle
    /\ RetentionIdle
    /\ MonitorStarted
    /\ MotionIdle
    /\ AsyncIdle
    /\ \E ocr \in SeqsUpTo(OcrEntries, MaxTexts), vision \in SeqsUpTo(VisionEntries, MaxElements) :
         LabelStart(ocr, vision)

NextLabels == BuildScreenState

SpecLabels == InitLabels /\ [][NextLabels]_vars

\* The commands typed at the prompt of AsyncLADAS, one task after the
\* other, while the clock runs.
InitAsync ==
    /\ FsmStart
    /\ OrchStart(DefaultConfig, {})
    /\ GateIdle
    /\ RetentionIdle
    /\ MonitorStarted
    /\ MotionIdle
    /\ LabelIdle
    /\ AsyncStartUp

NextAsync ==
    \/ AsyncStart
    \/ AsyncPlan
    \/ AsyncExecute
    \/ AsyncLoop
    \/ AsyncValidate
    \/ AsyncFinish
    \/ AsyncCancel
    \/ AsyncFinally
    \/ AsyncNext
    \/ AsyncTick

SpecAsync == InitAsync /\ [][NextAsync]_vars

\* Every command typed runs at once on the one LADAS object, each run
\* capturing and cleaning up under the session id of the process, while
\* another process captures into the same directory.
InitShare == FsmStart /\ SideIdle /\ OrchStart(DefaultConfig, Tasks)

NextShare ==
    \/ \E t \in Tasks : RunStart(t)
    \/ \E t \in Tasks : RunCapture(t)
    \/ \E t \in Tasks : RunCaptureFails(t)
    \/ \E t \in Tasks : RunPerceive(t)
    \/ \E t \in Tasks : RunComplete(t)
    \/ CaptureFile("s2")
    \/ RetentionTick

SpecShare == InitShare /\ [][NextShare]_vars

\* One call of drag from (0, 0) to every end position of the model, while
\* keys go down.
InitDrag ==
    /\ FsmStart
    /\ OrchStart(DefaultConfig, {})
    /\ GateIdle
    /\ RetentionIdle
    /\ MonitorStarted
    /\ LabelIdle
    /\ AsyncIdle
    /\ DragStart

NextDrag ==
    \/ DragCheck
    \/ DragMove
    \/ DragPress
    \/ DragRelease
    \/ MoveStart
    \/ MotionCheck
    \/ MotionWrite
    \/ MotionSnap
    \/ \E key \in PressedKeys : KeyDown(key)

SpecDrag == InitDrag /\ [][NextDrag]_vars
(***************************************************************************)
(* Claims about LADASStateMachine, checked under SpecFSM                   *)
(***************************************************************************)

Terminal == {"task_complete", "failed", "timeout", "aborted"}

\* The table of section 4.1 as the claims state it: <<trigger, source, dest>>.
TableOf41 ==
    { <<"start_parsing",      "idle",       "parsing">>,
      <<"to_planning",        "parsing",    "planning">>,
      <<"start_executing",    "planning",   "executing">>,
      <<"start_validating",   "executing",  "validating">>,
      <<"finish_validating",  "validating", "executing">>,
      <<"failed_validation",  "validating", "retrying">>,
      <<"retry_to_executing", "retrying",   "executing">> }

LifecycleTriggers == { tr[1] : tr \in TableOf41 }

EmergencyDest(trig) ==
    CASE trig = "fail" -> "failed"
      [] trig = "timeout" -> "timeout"
      [] trig = "trigger_failsafe" -> "aborted"
      [] OTHER -> "none"

\* The last trigger was rejected: MachineError, and the state is unchanged.
Rejected == fsm_err /\ state = fsm_src

\* C1: a lifecycle trigger fired from any state other than its single table
\* source, and any trigger at all fired from a terminal state, is rejected
\* with an invalid-transition error and leaves the state unchanged.
C1_OffTableRejected ==
    (/\ fsm_trigger # "none"
     /\ \/ fsm_src \in Terminal
        \/ /\ fsm_trigger \in LifecycleTriggers
           /\ <<fsm_trigger, fsm_src>> \notin { <<tr[1], tr[2]>> : tr \in TableOf41 })
    => Rejected

\* C2: each of the seven lifecycle transitions is accepted from its table
\* source and lands exactly in its table destination.
C2_LifecycleAccepted ==
    \A tr \in TableOf41 :
        (fsm_trigger = tr[1] /\ fsm_src = tr[2]) => (~fsm_err /\ state = tr[3])

\* C2 witness: the retry leg of the loop was taken, retrying -> executing.
C2_Witness ==
    /\ fsm_trigger = "retry_to_executing"
    /\ fsm_src = "retrying"
    /\ state = "executing"
    /\ ~fsm_err

\* C3: from every non-terminal state fail, timeout and trigger_failsafe are
\* accepted and move the machine to failed, timeout and aborted.
C3_EmergencyAccepted ==
    (fsm_src \notin Terminal /\ fsm_trigger \in {"fail", "timeout", "trigger_failsafe"})
    => (~fsm_err /\ state = EmergencyDest(fsm_trigger))

\* C3 witness: the failsafe trigger fired while retrying.
C3_Witness ==
    /\ fsm_trigger = "trigger_failsafe"
    /\ fsm_src = "retrying"
    /\ state = "aborted"
    /\ ~fsm_err



(***************************************************************************)
(* Claims about LADAS._execute_task                                        *)
(***************************************************************************)

\* A run that has been fired and has not returned.
Live(t) == loc[t].pc \notin {"untyped", "new", "done", "crashed"}

\* A run that has left the loop for good.
Stopped(t) == loc[t].pc \in {"finally", "done"}

\* C4: once a checkpoint of the loop has seen the time elapsed since the
\* task's start exceed the global timeout, the tracker is in timeout and the
\* run has left the loop (nothing is captured, decided or dispatched any
\* more), whatever the step index and retry count were; when the run
\* returns, timeout is the status persisted for the task.
C4_TimeoutStops ==
    \A t \in Tasks :
        obs[t].timed_out =>
            /\ tracker.fsm_state = "timeout"
            /\ Stopped(t)
            /\ loc[t].pc = "done" => task_status[tracker.task_id] = "timeout"

\* C4 happens: the deadline passed while the second step was being retried.
C4_Witness ==
    \E t \in Tasks :
        /\ obs[t].timed_out
        /\ loc[t].pc = "done"
        /\ tracker.current_step_idx = 1
        /\ tracker.step_retry_count >= 1
        /\ task_status[tracker.task_id] = "timeout"

\* C5: once any failsafe check of a run has observed the abort signal (at
\* the loop checkpoint, at the entry of ActionExecutor.execute or inside an
\* actuator), the tracker is in aborted and the run has left the loop: the
\* observation is not counted as a failed attempt of the step, and the task
\* does not go on to end in another state.
C5_AbortIsFinal ==
    \A t \in Tasks :
        obs[t].abort_seen => tracker.fsm_state = "aborted" /\ Stopped(t)

\* C6: no step of one run, its initial reset included, changes the
\* ExecutionState (FSM state, step index, retry counter, repeated-screen
\* counter, call counter, start time) of another run that is live.
C6_OwnExecutionState ==
    [][\A t \in Tasks :
          loc'[t] # loc[t] =>
              \A u \in Tasks \ {t} : Live(u) => tracker' = tracker]_vars

StaleAttempt(t) ==
    /\ loc[t].pc = "judge"
    /\ loc[t].action_cmd \in EffectfulKinds
    /\ loc[t].screen_hash \in Hashes
    /\ loc[t].post_hash = loc[t].screen_hash
    /\ obs[t].clean

Inert == {"wait", "scroll", "search_web", "press_key", "move", "hover"}

\* C9: when the post-action capture has succeeded and its fingerprint
\* differs from the pre-action one, or the kind is an inert one, the step is
\* marked COMPLETED and the orchestrator advances: the retry counter is not
\* incremented and retrying is not entered, whatever the kind.
C9_ChangedScreenCompletes ==
    [][\A t \in Tasks :
          ( /\ loc[t].pc = "judge"
            /\ loc'[t].pc # "judge"
            /\ loc[t].post_hash # "fail"
            /\ \/ /\ loc[t].screen_hash \in Hashes
                  /\ loc[t].post_hash \in Hashes
                  /\ loc[t].post_hash # loc[t].screen_hash
               \/ loc[t].action_cmd \in Inert ) =>
              /\ step_status'[<<tracker.task_id, tracker.current_step_idx>>] = "COMPLETED"
              /\ tracker'.current_step_idx = tracker.current_step_idx + 1
              /\ tracker'.step_retry_count = 0
              /\ tracker'.fsm_state # "retrying"]_vars

\* C10: the delay slept before a stale retry is min(base_delay * 2^n,
\* max_delay) for the retry counter n at that moment: it is never above
\* max_delay, and from one retry to the next it does not decrease.
C10_Backoff ==
    [][\A t \in Tasks :
          (loc[t].pc # "untyped" /\ tracker'.step_retry_count # tracker.step_retry_count) =>
              LET n == tracker'.step_retry_count
                  d == loc'[t].delay
              IN  /\ d <= cfg.max_delay
                  /\ d <= cfg.base_delay * 2^n
                  /\ d = cfg.max_delay \/ d = cfg.base_delay * 2^n
                  /\ d >= loc[t].delay]_vars

\* C10 happens: a delay that doubled at first and is now held at max_delay.
C10_Witness ==
    \E t \in Tasks :
        /\ tracker.step_retry_count >= 2
        /\ cfg.base_delay * 2 < cfg.max_delay
        /\ cfg.base_delay * 2^tracker.step_retry_count > cfg.max_delay
        /\ loc[t].delay = cfg.max_delay

(***************************************************************************)
(* Claims about the call budget                                            *)
(***************************************************************************)

\* C11: within one task, once llm_call_count has reached
\* max_llm_calls_per_task, every later call of parse, generate_plan and
\* get_next_action issues no request (the counter, which moves with every
\* request, stays where it is) and returns its fallback: parsing goes on to
\* planning, the plan is the fallback plan of one step, the decision is the
\* fallback wait; and the counter never goes back within the task.
C11_BudgetExhausted ==
    [][\A t \in Tasks :
          (loc[t].pc \in {"parse", "plan", "decide"} /\ loc'[t].pc # loc[t].pc) =>
              /\ tracker'.llm_call_count >= tracker.llm_call_count
              /\ tracker.llm_call_count >= cfg.max_llm_calls =>
                    /\ tracker'.llm_call_count = tracker.llm_call_count
                    /\ loc[t].pc = "parse" => loc'[t].pc = "plan"
                    /\ loc[t].pc = "plan" =>
                          tracker'.plan_len = 1 /\ loc'[t].pc = "loop"
                    /\ loc[t].pc = "decide" =>
                          loc'[t].action_cmd = "wait" /\ loc'[t].pc = "execute"]_vars

\* C11 happens: under a budget of one request, spent on parsing, the plan
\* was the fallback plan and the decision the fallback wait.
C11_Witness ==
    \E t \in Tasks :
        /\ cfg.max_llm_calls = 1
        /\ tracker.llm_call_count = 1
        /\ tracker.plan_len = 1
        /\ loc[t].pc = "execute"
        /\ loc[t].action_cmd = "wait"

\* C32: llm_call_count moves by exactly 1 with every request issued to the
\* client by parse, generate_plan or get_next_action and stays where it is
\* when the fallback for a used-up budget is returned, so that within one
\* task it equals the number of requests issued.
C32_CountsRequests ==
    /\ [](\A t \in Tasks :
            loc[t].pc # "untyped" => tracker.llm_call_count = obs[t].requests)
    /\ [][\A t \in Tasks :
            (loc[t].pc \in {"parse", "plan", "decide"} /\ loc'[t].pc # loc[t].pc) =>
                /\ tracker'.llm_call_count - tracker.llm_call_count
                     = obs'[t].requests - obs[t].requests
                /\ obs'[t].requests - obs[t].requests \in {0, 1}
                /\ tracker.llm_call_count >= cfg.max_llm_calls
                     => obs'[t].requests = obs[t].requests]_vars

\* C32 happens: under a budget of two requests, spent on parsing and
\* planning, a decision returned the fallback wait and the counter stands at
\* the two requests issued.
C32_Witness ==
    \E t \in Tasks :
        /\ cfg.max_llm_calls = 2
        /\ obs[t].requests = 2
        /\ tracker.llm_call_count = 2
        /\ tracker.plan_len = 2
        /\ loc[t].pc = "execute"
        /\ loc[t].action_cmd = "wait"

\* C37: with several tasks fired by run_terminal_loop running at once, the
\* requests issued to the LLM client on behalf of one task never exceed
\* max_llm_calls_per_task, and llm_call_count never exceeds that budget.
C37_BudgetPerTask ==
    /\ tracker.llm_call_count <= cfg.max_llm_calls
    /\ \A t \in Tasks : obs[t].requests <= cfg.max_llm_calls

(***************************************************************************)
(* Claims about the action safety gate (SpecExec)                          *)
(***************************************************************************)

\* The call of execute has ended, by a return or by an exception.
Called == exec_raised # "pending"

\* C12: with dry_run enabled, execute makes no actuator call for any action
\* kind (no mouse or keyboard method, no subprocess, no web search) and
\* returns no result.
C12_DryRunActuatesNothing ==
    (Called /\ exec_config.dry_run) =>
        /\ actuated = <<>>
        /\ exec_result = NoResult

\* A dry run of a web search, which in live mode returns the search result.
C12_Witness ==
    /\ Called
    /\ exec_config.dry_run
    /\ exec_cmd.action_type = "search_web"
    /\ exec_raised = "none"
    /\ actuated = <<>>

\* A hotkey command dispatched in live mode with unsafe_mode off.
GatedHotkey ==
    /\ Called
    /\ ~exec_config.dry_run
    /\ ~exec_config.unsafe_mode
    /\ exec_cmd.action_type = "hotkey"
    /\ exec_cmd.keys # <<>>

\* C13: in live mode with unsafe_mode off, a hotkey whose normalized
\* combination ('+'-joined, lower-cased) is not an entry of allowed_hotkeys
\* raises PermissionError and the keyboard is never invoked, whatever the
\* allow-list is, an empty or a missing one included; a combination that is
\* an entry is dispatched.
C13_UnlistedHotkeyRefused ==
    GatedHotkey =>
        IF HotkeyStr(exec_cmd.keys) \in Range(OrEmpty(exec_config.allowed_hotkeys))
        THEN exec_raised = "none"
             /\ actuated = <<Call("keyboard.hotkey", <<>>, exec_cmd.keys)>>
        ELSE exec_raised = "PermissionError" /\ actuated = <<>>

\* A run_command command dispatched in live mode.
LiveCommand ==
    /\ Called
    /\ ~exec_config.dry_run
    /\ exec_cmd.action_type = "run_command"

\* The subprocess launched for the command, and nothing else.
Launched == actuated = <<Call("subprocess.Popen", <<>>, exec_cmd.command)>>

\* The rule of lines 126-127 as the claim words it.
Authorized ==
    \/ exec_config.unsafe_mode
    \/ \E p \in Range(OrEmpty(exec_config.allowed_commands)) :
         StartsWith(exec_cmd.command, p)

\* C14 as stated: in live mode a run_command launches a subprocess if and
\* only if unsafe_mode is set or the command starts with an entry of
\* allowed_commands; otherwise PermissionError is raised before any launch.
C14_LaunchIffAuthorized ==
    LiveCommand =>
        IF Authorized
        THEN exec_raised = "none" /\ Launched
        ELSE exec_raised = "PermissionError" /\ actuated = <<>>

\* C14: in live mode a run_command whose command is not blank launches a
\* subprocess if and only if unsafe_mode is set or the command starts with
\* an entry of allowed_commands, and otherwise raises PermissionError before
\* any launch; a blank command raises ValueError and launches nothing,
\* whatever unsafe_mode and the allow-list are.
C14_NonBlankLaunchIffAuthorized ==
    LiveCommand =>
        IF Blank(exec_cmd.command)
        THEN exec_raised = "ValueError" /\ actuated = <<>>
        ELSE IF Authorized
        THEN exec_raised = "none" /\ Launched
        ELSE exec_raised = "PermissionError" /\ actuated = <<>>

\* A command refused under an empty allow-list with unsafe_mode off.
C14_Witness ==
    /\ LiveCommand
    /\ ~exec_config.unsafe_mode
    /\ exec_config.allowed_commands = << <<>> >>
    /\ ~Blank(exec_cmd.command)
    /\ exec_raised = "PermissionError"
    /\ actuated = <<>>

\* The command carries explicit coordinates with both x and y.
ExplicitPosition == DOMAIN OrEmpty(exec_cmd.coordinates) = {"x", "y"}

\* The command carries a parameters.target.bbox of exactly four numbers.
FourNumberBox == exec_cmd.bbox # <<>> /\ Len(exec_cmd.bbox[1]) = 4

\* C15: for every coordinate-requiring kind (click, double_click,
\* right_click, move, scroll), a command with neither explicit coordinates
\* holding both x and y nor a target bbox of exactly four numbers makes
\* execute raise a validation failure, and no actuator method is called.
C15_NoPositionIsInvalid ==
    (/\ Called
     /\ exec_cmd.action_type \in {"click", "double_click", "right_click", "move", "scroll"}
     /\ ~ExplicitPosition
     /\ ~FourNumberBox) =>
        /\ exec_raised = "ValueError"
        /\ actuated = <<>>

\* A live click with x only and a bbox of three numbers is rejected.
C15_Witness ==
    /\ Called
    /\ ~exec_config.dry_run
    /\ exec_cmd.action_type = "click"
    /\ DOMAIN OrEmpty(exec_cmd.coordinates) = {"x"}
    /\ exec_cmd.bbox # <<>>
    /\ Len(exec_cmd.bbox[1]) = 3
    /\ exec_raised = "ValueError"
    /\ actuated = <<>>

\* The first actuator call of a returned execute was passed the position p
\* (in half pixels).
PassedAt(p) ==
    /\ exec_raised = "none"
    /\ actuated # <<>>
    /\ actuated[1].at = p

\* C16: a command without explicit coordinates and with a target bbox
\* [x1, y1, x2, y2] has the centre (x1 + (x2 - x1)/2, y1 + (y2 - y1)/2)
\* passed to the actuator, which in half pixels is (x1 + x2, y1 + y2); a
\* command with explicit coordinates has those passed and the bbox ignored.
C16_CentreOrExplicit ==
    (/\ Called
     /\ ~exec_config.dry_run
     /\ exec_cmd.action_type \in pointer_actions \cup {"type_text"}) =>
        LET c == OrEmpty(exec_cmd.coordinates)
            b == OrEmpty(exec_cmd.bbox)
        IN  IF ExplicitPosition THEN PassedAt(<<2 * c.x, 2 * c.y>>)
            ELSE IF DOMAIN c = {} /\ FourNumberBox
            THEN PassedAt(<<b[1] + b[3], b[2] + b[4]>>)
            ELSE TRUE

\* The click of test_target_resolution: the box [100, 200, 300, 400] and no
\* coordinates give a click at (200, 300), which is (400, 600) in half pixels.
C16_Witness ==
    /\ Called
    /\ exec_cmd.action_type = "click"
    /\ exec_cmd.coordinates = <<>>
    /\ exec_cmd.bbox = <<ExampleBox>>
    /\ actuated = <<Call("mouse.click", <<400, 600>>, <<>>)>>

\* What execute does with the command under the same configuration in live
\* mode.
LiveOutcome == ExecutorExecute([exec_config EXCEPT !.dry_run = FALSE], exec_cmd)

\* C34: dry-run mode performs the validation of live mode: a command that
\* live mode rejects with a validation failure (ValueError) or an
\* authorization failure (PermissionError) is rejected with the same kind of
\* failure in dry-run mode.
C34_DryRunValidates ==
    (Called /\ exec_config.dry_run /\ LiveOutcome.raised \in {"ValueError", "PermissionError"})
        => exec_raised = LiveOutcome.raised

(***************************************************************************)
(* Claims about capture retention (SpecRetention)                          *)
(***************************************************************************)

\* The artifacts a thread's listing held that are still in the directory:
\* ids are given in capture order, and seen is the last id captured when the
\* directory was listed.
Survivors(th) == { f \in files : f.id <= sweep[th].seen }

Cleaned == sweep["task"].pc = "clean" /\ sweep["task"].todo = {}

Pending(th) == sweep[th].todo \cup sweep[th].victims

\* C19: with the sweep, a session cleanup and captures interleaved in any
\* order, no step of clean_session or enforce_policy lets an exception out
\* (no thread dies, the sweeper thread included), and a turn of a loop on a
\* file that another activity has already deleted changes nothing in the
\* directory and leaves the rest of the thread's list to be gone through.
C19_DeletedIsNoOp ==
    [][\A th \in Sweepers :
         /\ sweep'[th].pc # "dead"
         /\ \A f \in Pending(th) \ files :
              f \notin Pending(th)' =>
                  /\ files' = files
                  /\ sweep'[th].todo = sweep[th].todo \ {f}
                  /\ sweep'[th].victims = sweep[th].victims \ {f}
                  /\ sweep'[th].files_removed = sweep[th].files_removed]_vars

\* A sweep of the sweeper thread is over whose one removal, for the count,
\* found the file already deleted: nothing was removed by it.
C19_Witness ==
    /\ sweep["sweeper"].pc = "log"
    /\ Cardinality(sweep["sweeper"].valid) = 1
    /\ policy.max_count = 0
    /\ sweep["sweeper"].files_removed = 0
    /\ sweep["task"].pc # "dead"

(***************************************************************************)
(* Claims about the failsafe monitor (SpecFailsafe)                        *)
(***************************************************************************)

\* C20: the abort signal is one-shot. The failsafe key heard by a running
\* listener sets triggered and stops the listener. Once set, triggered is
\* cleared by no check(), no stop(), no key and no step of a task: the only
\* step that clears it is a start() that begins a new listening session, and
\* no step of _execute_task starts, stops or clears the monitor.
C20_OneShot ==
    [][/\ (listener = "running" /\ monitor_op' = "failsafe_key") =>
             (triggered' /\ listener' = "stopped")
       /\ (triggered /\ ~triggered') =>
             (MonitorStart /\ listener # "running" /\ listener' = "running")
       /\ \A t \in Tasks : TaskStep(t) => UNCHANGED <<triggered, listener, monitor_op>>
      ]_vars

\* The flag still set at the end of a run it aborted, after a stop(), a
\* check() that raised and a further key.
C20_Witness ==
    /\ triggered
    /\ listener = "none"
    /\ monitor_op = "failsafe_key"
    /\ loc[1].pc = "done"
    /\ obs[1].abort_seen

(***************************************************************************)
(* Claims about one run with the captures and the gate in detail           *)
(***************************************************************************)

\* The dispatch of the iteration under way has just been refused by the
\* gate.
Denied == loc[1].pc = "inflight" /\ exec_raised' = "PermissionError"

\* C21: when the safety gate raises PermissionError for a step's action,
\* the orchestrator does not go back to the loop to dispatch again for that
\* step: the failure ends the task, which leaves the loop with its tracker
\* in a terminal state.
C21_DenialEndsTask ==
    [][Denied => /\ loc'[1].pc = "finally"
                 /\ tracker'.fsm_state \in TrackerTerminal
                 /\ tracker'.current_step_idx = tracker.current_step_idx]_vars

\* The run is at the capture checkpoint of an iteration.
AtCapture == loc[1].pc = "capture"

\* C23: at the capture checkpoint of an iteration at most 3 attempts are
\* made. A step taken there either proceeds with the iteration (an attempt
\* succeeded), or is a failed attempt followed by another one, or is the
\* third failure: then the tracker goes to failed and the run leaves the
\* loop, with no perception, decision or dispatch in between.
C23_ThreeAttempts ==
    /\ [](AtCapture => loc[1].attempt < 3)
    /\ [][AtCapture =>
            \/ loc'[1].pc = "detect" /\ tracker' = tracker
            \/ /\ loc'[1].pc = "capture"
               /\ loc'[1].attempt = loc[1].attempt + 1
               /\ tracker' = tracker
            \/ /\ loc[1].attempt = 2
               /\ loc'[1].pc = "finally"
               /\ tracker'.fsm_state = "failed"]_vars

\* The third attempt of the second step's first iteration has failed, after
\* a capture was taken for the first step.
C23_Witness ==
    /\ loc[1].pc = "finally"
    /\ tracker.fsm_state = "failed"
    /\ tracker.current_step_idx = 1
    /\ exec_raised = "pending"
    /\ last_hash # NoHash

\* Every attempt at the post-action capture of the iteration has failed and
\* the verdict on the step is due.
PostCaptureMissing == loc[1].pc = "judge" /\ loc[1].post_hash = "fail"

\* C24: the post-action capture is attempted a bounded number of times and,
\* when every attempt has failed, the task ends in failed: the run leaves
\* the loop with the step still current, neither marked nor advanced past.
C24_PostCaptureFailureFatal ==
    /\ [](loc[1].pc = "postcap_try" => loc[1].attempt < post_capture_tries)
    /\ [][PostCaptureMissing =>
            /\ tracker'.fsm_state = "failed"
            /\ loc'[1].pc = "finally"
            /\ tracker'.current_step_idx = tracker.current_step_idx
            /\ step_status' = step_status]_vars

(***************************************************************************)
(* Claims about the error handling and the checkpoints of the loop         *)
(***************************************************************************)

\* The decision of the iteration under way has just raised: main.py line 336
\* is the one increment of the step's counter between capture and dispatch.
DecisionFailed ==
    loc[1].pc = "decide" /\ tracker'.step_retry_count = tracker.step_retry_count + 1

\* C22: a decision failure never ends the task. The first one of a step is
\* answered by dispatching the fallback wait; one that escalates the step to
\* step_failed leaves the run in its loop, so that the remaining steps are
\* taken and the run returns only with its tracker in a terminal state.
C22_DecisionFailureAbsorbed ==
    /\ [][DecisionFailed =>
            IF tracker'.step_retry_count > 1
            THEN loc'[1].pc = "loop"
            ELSE loc'[1].pc = "execute" /\ loc'[1].action_cmd = "wait"]_vars
    /\ [](loc[1].pc \in {"finally", "done"} => tracker.fsm_state \in TrackerTerminal)

\* C35: whenever _execute_task returns the tracker is in a terminal state
\* (task_complete, failed, timeout, aborted) and that state is the status
\* written to the task store.
C35_ReturnsTerminal ==
    \A t \in Tasks :
        loc[t].pc = "done" =>
            /\ tracker.fsm_state \in TrackerTerminal
            /\ task_status[tracker.task_id] = tracker.fsm_state

(***************************************************************************)
(* Claims about the animated pointer movement                              *)
(***************************************************************************)

\* The intermediate points written so far are the first k of the curve, in
\* order, and nothing else has been written.
OnlyFirstPoints(k) ==
    /\ Len(pointer) = k
    /\ \A i \in 1..k : pointer[i] = CurvePoint(i)

\* C25: during an animated movement the abort signal is checked before
\* every intermediate point is written. A check that finds the signal set
\* raises FailsafeTriggered without writing, and once the check before the
\* k-th point has raised, the pointer holds the k - 1 points before it and
\* never the k-th, a later one or the final snap to the target.
C25_AbortStopsMotion ==
    /\ [][(motion.pc = "check" /\ triggered /\ motion' # motion)
            => (motion'.pc = "raised" /\ pointer' = pointer)]_vars
    /\ [](motion.pc = "raised" => OnlyFirstPoints(motion.next - 1))

\* The signal was set after the first point of a curve of three had been
\* written: the check before the second point raised.
C25_Witness ==
    /\ motion.pc = "raised"
    /\ motion.num_points = 3
    /\ motion.next = 2
    /\ pointer = <<CurvePoint(1)>>
    /\ triggered

\* C40: when drag has returned or raised, every press of the left button
\* it issued has been followed by its release: the button is not left held.
C40_ButtonReleased ==
    motion.pc \in {"done", "raised"} =>
        CallsOf(ButtonRelease, pointer) = CallsOf(ButtonPress, pointer)

(***************************************************************************)
(* Claims about the labelling of visual elements                           *)
(***************************************************************************)

\* The squared distance between the centre of element i as detected and the
\* centre of text entry j.
Dist2(i, j) ==
    LET c == perception.detected[i].center
        b == perception.ocr_elements[j].bounding_box
        vx == IF c = <<>> THEN 0 ELSE c[1].x
        vy == IF c = <<>> THEN 0 ELSE c[1].y
    IN  (vx - (b.x + b.width \div 2)) * (vx - (b.x + b.width \div 2))
          + (vy - (b.y + b.height \div 2)) * (vy - (b.y + b.height \div 2))

\* The text entries strictly within 50 pixels of element i.
InRadius(i) == { j \in DOMAIN perception.ocr_elements : Dist2(i, j) < 50 * 50 }

\* C26: build_screen_state labels each visual element with the text of the
\* first entry of the text list, in iteration order, whose centre lies
\* strictly within 50 pixels of the element's centre, whether or not a later
\* entry is closer; an element with no entry in the radius gets no label.
C26_FirstMatchLabels ==
    perception.pc = "returned" =>
        \A i \in DOMAIN perception.vision_elements :
            IF InRadius(i) = {}
            THEN perception.vision_elements[i].label = <<>>
            ELSE \E j \in InRadius(i) :
                    /\ \A k \in InRadius(i) : j <= k
                    /\ perception.vision_elements[i].label
                         = <<perception.ocr_elements[j].text>>

\* An element was labelled "A" by the first entry although the second
\* entry, "B", is closer to it, and another element got no label.
C26_Witness ==
    /\ perception.pc = "returned"
    /\ Len(perception.vision_elements) = 2
    /\ InRadius(1) = {1, 2}
    /\ Dist2(1, 2) < Dist2(1, 1)
    /\ perception.ocr_elements[2].text = "B"
    /\ perception.vision_elements[1].label = <<"A">>
    /\ InRadius(2) = {}
    /\ perception.vision_elements[2].label = <<>>

(***************************************************************************)
(* Claims about AsyncLADAS._execute_task                                   *)
(***************************************************************************)

\* C27: in AsyncLADAS._execute_task, once the machine has entered a terminal
\* state during a task no later transition of that task changes it, so the
\* state on return is the first terminal state entered: a task that hit the
\* global timeout returns in timeout.
C27_TerminalStays ==
    [][(state \in MachineTerminal /\ arun.pc \notin {"done", "new"}) => state' = state]_vars

\* C36: every call of AsyncLADAS._execute_task starts with the machine in
\* idle, so that start_parsing is legal for the second and every later task
\* of a session as for the first.
C36_StartsIdle == arun.pc = "new" => state = "idle"

(***************************************************************************)
(* Claims about loop detection (main.py lines 286-303)                     *)
(***************************************************************************)

\* The iteration under way is at its loop detection and the fingerprint it
\* has just captured equals that of the capture before it.
SameAsPreviousCapture ==
    /\ loc[1].pc = "detect"
    /\ loc[1].screen_hash # NoHash
    /\ loc[1].screen_hash = obs[1].before_hash

\* C28: loop detection compares the new fingerprint with that of the previous
\* capture: the repeat counter is incremented only when the two are equal,
\* and is reset to 0 when they differ.
C28_ComparesWithPrevious ==
    [][loc[1].pc = "detect" =>
         /\ tracker'.repeated_state_count > tracker.repeated_state_count
              => SameAsPreviousCapture
         /\ ~SameAsPreviousCapture => tracker'.repeated_state_count = 0]_vars

\* The kinds spec 4.2 step 4 expects to be visually inert.
InertKinds == {"wait", "scroll", "search_web", "press_key", "move", "hover"}

\* C29: when the fingerprint equals the previous one and the action executed
\* last is of an inert kind, the repeat counter is reset to 0.
C29_InertResets ==
    [][(SameAsPreviousCapture /\ LastAct(action_log, tracker.task_id) \in InertKinds)
         => tracker'.repeated_state_count = 0]_vars

(***************************************************************************)
(* Claims about the checkpoint order of the loop (main.py lines 250-265)   *)
(***************************************************************************)

\* Task t is at the head of an iteration of its loop.
AtCheckpoint(t) ==
    /\ loc[t].pc = "loop"
    /\ tracker.fsm_state \in {"executing", "validating", "retrying"}
    /\ loc'[t] # loc[t]

\* The deadline of the task is exceeded.
DeadlinePassed == now - tracker.task_start_time > cfg.global_timeout

\* The part of an iteration that follows the two checks: capture, loop
\* detection, decision, dispatch and validation.
IterationBody == {"capture", "detect", "decide", "execute", "inflight", "postcap", "judge"}

\* C30: the check of the deadline precedes the check of the abort signal and
\* both precede capture, decision and dispatch. With the deadline exceeded
\* and the signal set the task ends in timeout, and the body of an iteration
\* is entered only from the checkpoint, with both checks passed.
C30_CheckpointOrder ==
    /\ [][\A t \in Tasks :
            (AtCheckpoint(t) /\ DeadlinePassed /\ triggered)
                => (tracker'.fsm_state = "timeout" /\ loc'[t].pc = "finally")]_vars
    /\ [][\A t \in Tasks :
            (loc[t].pc \notin IterationBody /\ loc'[t].pc \in IterationBody)
                => (AtCheckpoint(t) /\ ~DeadlinePassed /\ ~triggered
                    /\ loc'[t].pc = "capture")]_vars

\* A task ended in timeout at a checkpoint where the abort signal was set as
\* well.
C30_Witness ==
    \E t \in Tasks :
        /\ loc[t].pc = "finally"
        /\ tracker.fsm_state = "timeout"
        /\ obs[t].timed_out
        /\ ~obs[t].abort_seen
        /\ triggered

(***************************************************************************)
(* Claims about one retention sweep on its own (SpecSweep)                 *)
(***************************************************************************)

\* The artifacts the sweep listed, as far as the clock and the directory
\* still tell: those left and those the sweep kept as age-valid.
Listed == { f \in files : f.id <= sweep["sweeper"].seen }
AgeValid == sweep["sweeper"].valid

InsideTry(t) == loc[t].pc \in TryBody \cup {"finally", "cleanup"}

\* C33: once a task has entered the execution loop, every way of leaving it
\* is followed, before _execute_task returns, by persisting the task's final
\* state and by exactly one session-cleanup call: the coroutine ends only
\* by the return that follows capture.task_complete, the status persisted.
C33_LeavingIsCleanedUp ==
    [][\A t \in Tasks :
         (InsideTry(t) /\ loc'[t].pc \in {"done", "crashed"}) =>
             /\ loc'[t].pc = "done"
             /\ obs'[t].cleanups = 1
             /\ task_status'[tracker.task_id] = tracker.fsm_state]_vars

(***************************************************************************)
(* The artifacts of concurrent runs                                        *)
(***************************************************************************)

\* The run is between its start and its finally block.
StillRunning(t) == loc[t].pc \in {"capture", "perceive"}

\* C38: when a run ends and calls task_complete, no artifact that another
\* run, still running, captured and still has in the directory is removed:
\* the file screen_path names in that other run is in the directory after
\* the call if it was there before.
C38_KeepsOthersArtifacts ==
    [][\A t \in Tasks, u \in Tasks :
         (u # t /\ loc[t].pc = "finally" /\ loc'[t].pc = "done" /\ StillRunning(u)
            /\ Held(u, files)) => Held(u, files')]_vars

(***************************************************************************)
(* Task identifiers of concurrent runs                                     *)
(***************************************************************************)

\* The run has been named (main.py line 198) and has not returned.
Alive(t) == loc[t].pc \notin {"new", "untyped", "done", "crashed"}

\* C39: a run that starts while another run is alive is given a task id
\* different from the id of that run. Where the run alive is the only one
\* started so far, its id is the one in the tracker when the new run starts.
C39_DistinctIds ==
    [][\A t \in Tasks, u \in Tasks :
         (/\ t # u
          /\ loc[t].pc = "new" /\ loc'[t].pc = "parse"
          /\ Alive(u)
          /\ \A w \in Tasks \ {t, u} : loc[w].pc \in {"new", "untyped"})
         => tracker'.task_id # tracker.task_id]_vars

====
